---- MODULE Spec2Model ----
(***************************************************************************)
(* Model of the batch builder (TextData._createBatch), of the vocabulary   *)
(* (TextData.getWordId, TextData.sequence2str) and of the beam decoding    *)
(* call (Chatbot.singlePredict: traceback, scoring, answer selection) of   *)
(* DeepQA.                                                                 *)
(*                                                                         *)
(* Python lists are TLA+ sequences (1-based): element t of a Python list   *)
(* (0-based) is element t+1 of the sequence.  The beam arrays symbol, path *)
(* and probs are functions over 0..T-1 and 0..K-1, as the code indexes     *)
(* them.  A dict is a function over its keys.  Floats are modelled by      *)
(* integers (weights 1.0/0.0 by 1/0, log-probabilities by integers).       *)
(***************************************************************************)
EXTENDS Integers, Sequences, FiniteSets, TLC

VARIABLES
    args,        \* the run configuration (self.args)
    samples,     \* the argument of _createBatch
    status,      \* "input" before the call, then "ok" or the exception raised
    batch,       \* the Batch returned (NoBatch when none)
    symbol,      \* symbol[i][k]: the symbol chosen at step i in beam slot k
    path,        \* path[i][k]: the slot of step i-1 that slot k of step i extends
    probs,       \* probs[i][k]: the log-probability added at step i in slot k
    pc,          \* "idle", or the position of the call in progress: "model"
                 \* while the model emits its output, then "done";
                 \* "sequence2str", then "returned"
    lastTokenIndex,  \* singlePredict's locals after the traceback
    paths,
    log_probs,
    candidates,
    startStep,   \* history: the first step the traceback visited for each slot
    reply_score_map,  \* singlePredict's locals after the scoring loop; the
    best_score,       \* dict is the list of its (key, value) items in
    answer,           \* insertion order
    sorted_replies,
    word2id,     \* the vocabulary (TextData.word2id, TextData.id2word)
    id2word,
    word,        \* the arguments and the return value of the last getWordId
    create,
    wordId,
    added,       \* history: the tokens registered, in the order of registration
    sequence,    \* the arguments and the return value of sequence2str
    clean,
    reverse,
    sentence,
    reserved,    \* TextData's padToken, goToken, eosToken and unknownToken
    data,        \* the dataset file of the corpus (samplesDir/samplesName)
    trainingSamples,  \* TextData.trainingSamples
    corpusPc,    \* "idle", or the position of loadCorpus: "init" after the
                 \* constructor's assignments, then "created", "loaded" or
                 \* the exception raised
    batches,     \* the return value of getBatches
    previous,    \* what the call before the last returned (None before a
                 \* second call)
    driver,      \* the caller of singlePredict: "interactive", "testset"
                 \* (predictTestset) or "daemon" (daemonPredict)
    inputs,      \* the inputs the caller has still to read
    question,    \* the argument of the last singlePredict call
    nbIgnored,   \* predictTestset's counter
    written,     \* the answers written to the predictions file or printed
    daemonAnswer,  \* the return value of daemonPredict (None before)
    askPc,       \* "idle", "loop" at the top of the caller's loop, "predict"
                 \* inside singlePredict, "finished" or the exception raised
    modelDir,    \* the names of the files in self.modelDir
    restored,    \* the model files saver.restore has read
    dirPc,       \* "idle", "start" before managePreviousModel, then "done"
                 \* or the exception raised
    globStep,    \* self.globStep
    firstStep,   \* history: globStep when mainTrain was entered
    processed,   \* history: the batches mainTrain has processed
    saves,       \* history: the completed _saveSession calls, each with its
                 \* step and the place of the call
    interrupted, \* the interrupt mainTrain has caught ("none" when none)
    epoch,       \* the epochs mainTrain has completed
    todo,        \* the batches of the current epoch still to process
    trainPc      \* "idle", the position in mainTrain, "returned" or the
                 \* exception raised

batchVars == <<args, samples, status, batch>>

beamVars == <<symbol, path, probs, pc, lastTokenIndex, paths, log_probs,
              candidates, startStep, reply_score_map, best_score, answer,
              sorted_replies>>

vocabVars == <<word2id, id2word, word, create, wordId, added>>

strVars == <<sequence, clean, reverse, sentence>>

textVars == <<reserved, data, trainingSamples, corpusPc, batches>>

callVars == <<previous>>

askVars == <<driver, inputs, question, nbIgnored, written, daemonAnswer, askPc>>

runVars == <<modelDir, restored, dirPc, globStep, firstStep, processed, saves,
             interrupted, epoch, todo, trainPc>>

\* the state of the application around the batch builder, the decoder and
\* the vocabulary
appVars == <<textVars, callVars, askVars, runVars>>

vars == <<args, samples, status, batch, symbol, path, probs, pc,
          lastTokenIndex, paths, log_probs, candidates, startStep,
          reply_score_map, best_score, answer, sorted_replies,
          word2id, id2word, word, create, wordId, added,
          sequence, clean, reverse, sentence,
          appVars>>

----------------------------------------------------------------------------
(* Bounds of the model *)

MaxLength == 2      \* args.maxLength
MaxBatch == 2       \* largest number of samples given to _createBatch
CtxDim == 2         \* width of a context vector (64 in the source)

(* Reserved ids, in the order createCorpus registers them *)
padToken == 0
goToken == 1
eosToken == 2
unknownToken == 3

NoBatch == [none |-> TRUE]

\* Python's None
None == [none |-> TRUE]

----------------------------------------------------------------------------
(* Helpers for Python list operations *)

\* list(reversed(s)) and s[::-1]
Reverse(s) == [i \in 1..Len(s) |-> s[Len(s) + 1 - i]]

\* [x] * n   (the empty list when n <= 0)
Rep(x, n) == [i \in 1..n |-> x]

\* np.zeros(64,)
ZeroVec == Rep(0, CtxDim)

----------------------------------------------------------------------------
(* Inputs *)

\* a sequence of n ids: first, then rest repeated
Pattern(n, first, rest) == [i \in 1..n |-> IF i = 1 THEN first ELSE rest]

\* sources and targets up to one token beyond args.maxLength
SrcSeqs == {Pattern(n, 4, 5) : n \in 0..(MaxLength + 1)}
TgtSeqs == {Pattern(n, 5, 4) : n \in 0..(MaxLength + 1)}

\* the food embedding of a meal, a fixed-size sequence of numbers: one vector
\* per source, none of them zero
FoodEmb(s) == [i \in 1..CtxDim |-> 7 + 2 * Len(s) + i]

\* [input, target] samples and [input, target, foods] samples
Samples2 == {<<s, t>> : s \in SrcSeqs, t \in TgtSeqs}
Samples3 == {<<s, t, FoodEmb(s)>> : s \in SrcSeqs, t \in TgtSeqs}

\* withFoods: the corpus is healthy-comments, whose samples carry the food
\* embedding as third element (loadCorpus, extractHealthyComments)
Configs ==
    [test : BOOLEAN, watsonMode : BOOLEAN, match_encoder_decoder_input : BOOLEAN,
     food_context : BOOLEAN, first_step : BOOLEAN,
     withFoods : BOOLEAN,
     maxLengthEnco : {MaxLength}, maxLengthDeco : {MaxLength + 2},
     MMI : {FALSE}, lambda_wt : {1}, gamma_wt : {1}]

----------------------------------------------------------------------------
(* TextData._createBatch *)

\* the sample as unpacked by the loop body (Watson mode reverses the list)
Unpack(sample) ==
    IF ~args.test /\ args.watsonMode THEN Reverse(sample) ELSE sample

\* mutant: the input is not reversed
EncoderSeq_NotReversed(s) == s[1]

EncoderSeq(s) == Reverse(s[1])

TargetSeqWithGo(s) == <<goToken>> \o s[2] \o <<eosToken>>

\* mutant: the decoder is fed the reversed encoder sequence
DecoderSeq_Reversed(s) ==
    IF args.match_encoder_decoder_input
    THEN <<goToken>> \o Reverse(s[1]) \o <<eosToken>>
    ELSE TargetSeqWithGo(s)

DecoderSeq(s) ==
    IF args.match_encoder_decoder_input
    THEN <<goToken>> \o s[1] \o <<eosToken>>
    ELSE TargetSeqWithGo(s)

\* mutant: first_step is ignored
ContextSeq_EveryStep(s) == Rep(s[3], args.maxLengthDeco)

ContextSeq(s) ==
    IF args.first_step
    THEN <<s[3]>> \o Rep(ZeroVec, args.maxLengthDeco - 1)
    ELSE Rep(s[3], args.maxLengthDeco)

\* mutant: the go token is kept
TargetSeq_NotShifted(s) == TargetSeqWithGo(s)

TargetSeq(s) == Tail(TargetSeqWithGo(s))

\* The exception one iteration of the first loop raises on sample ("ok" when
\* none): sample[2] missing, then the two assertions
SampleError(sample) ==
    LET s == Unpack(sample) IN
    IF args.food_context /\ Len(s) < 3 THEN "IndexError"
    ELSE IF Len(EncoderSeq(s)) > args.maxLengthEnco THEN "AssertionError"
    ELSE IF Len(DecoderSeq(s)) > args.maxLengthDeco THEN "AssertionError"
    ELSE "ok"

\* the exception of the first sample that raises one
BatchError(smpls) ==
    LET bad == {i \in 1..Len(smpls) : SampleError(smpls[i]) # "ok"} IN
    IF bad = {} THEN "ok"
    ELSE SampleError(smpls[CHOOSE i \in bad : \A j \in bad : i <= j])

PadEncoder(e) == Rep(padToken, args.maxLengthEnco - Len(e)) \o e

\* mutant: the end token is masked out
WeightsOf_WithoutEos(t) ==
    Rep(1, Len(t) - 1) \o Rep(0, args.maxLengthDeco - Len(t) + 1)

WeightsOf(t) == Rep(1, Len(t)) \o Rep(0, args.maxLengthDeco - Len(t))

PadDecoder(d) == d \o Rep(padToken, args.maxLengthDeco - Len(d))

\* mutant: the batch stays batch-major
Transpose_BatchMajor(rows, n) == rows

\* the reshape to time-major: out[i][j] = rows[j][i]
Transpose(rows, n) == [i \in 1..n |-> [j \in 1..Len(rows) |-> rows[j][i]]]

BuildBatch(smpls) ==
    LET u == [j \in 1..Len(smpls) |-> Unpack(smpls[j])]
        enc == [j \in 1..Len(u) |-> PadEncoder(EncoderSeq(u[j]))]
        dec == [j \in 1..Len(u) |-> PadDecoder(DecoderSeq(u[j]))]
        tgt == [j \in 1..Len(u) |-> PadDecoder(TargetSeq(u[j]))]
        wgt == [j \in 1..Len(u) |-> WeightsOf(TargetSeq(u[j]))]
        ctx == [j \in 1..Len(u) |->
                   IF args.food_context THEN ContextSeq(u[j])
                   ELSE Rep(ZeroVec, args.maxLengthDeco)]
    IN  [encoderSeqs |-> Transpose(enc, args.maxLengthEnco),
         decoderSeqs |-> Transpose(dec, args.maxLengthDeco),
         targetSeqs  |-> Transpose(tgt, args.maxLengthDeco),
         weights     |-> Transpose(wgt, args.maxLengthDeco),
         contextSeqs |-> Transpose(ctx, args.maxLengthDeco)]

----------------------------------------------------------------------------
(* TextData: the vocabulary *)

MaxSeqLen == 5      \* longest sequence given to sequence2str

\* the tokens createCorpus registers first, in this order
ReservedWords == <<"<pad>", "<go>", "<eos>", "<unknown>">>

\* the tokens of the corpus, as written
Words == {"good", "Good", "meal", "MEAL", "rice", "Rice", "soup"}

\* str.lower on the tokens of the model
Lower(w) ==
    CASE w = "Good" -> "good"
      [] w = "MEAL" -> "meal"
      [] w = "Rice" -> "rice"
      [] OTHER -> w

\* len(self.word2id)
Size(w2i) == Cardinality(DOMAIN w2i)

\* mutant: the token is looked up as written
getWordId_CaseSensitive(w2i, i2w, wd, cr) ==
    LET found == IF wd \in DOMAIN w2i THEN w2i[wd] ELSE -1 IN
    IF found = -1
    THEN IF cr
         THEN [word2id |-> (wd :> Size(w2i)) @@ w2i,
               id2word |-> (Size(w2i) :> wd) @@ i2w,
               wordId  |-> Size(w2i)]
         ELSE [word2id |-> w2i, id2word |-> i2w, wordId |-> unknownToken]
    ELSE [word2id |-> w2i, id2word |-> i2w, wordId |-> found]

\* mutant: ids are counted from one
getWordId_FromOne(w2i, i2w, wd, cr) ==
    LET lw == Lower(wd)
        found == IF lw \in DOMAIN w2i THEN w2i[lw] ELSE -1
    IN  IF found = -1
        THEN IF cr
             THEN [word2id |-> (lw :> Size(w2i) + 1) @@ w2i,
                   id2word |-> (Size(w2i) + 1 :> lw) @@ i2w,
                   wordId  |-> Size(w2i) + 1]
             ELSE [word2id |-> w2i, id2word |-> i2w, wordId |-> unknownToken]
        ELSE [word2id |-> w2i, id2word |-> i2w, wordId |-> found]

\* getWordId(wd, create=cr) on the vocabulary (w2i, i2w): the vocabulary and
\* the id it returns.  self.unknownToken holds unknownToken once createCorpus
\* has registered the reserved tokens, and no call with create=False is made
\* before.
getWordId(w2i, i2w, wd, cr) ==
    LET lw == Lower(wd)
        found == IF lw \in DOMAIN w2i THEN w2i[lw] ELSE -1
    IN  IF found = -1
        THEN IF cr
             THEN [word2id |-> (lw :> Size(w2i)) @@ w2i,
                   id2word |-> (Size(w2i) :> lw) @@ i2w,
                   wordId  |-> Size(w2i)]
             ELSE [word2id |-> w2i, id2word |-> i2w, wordId |-> unknownToken]
        ELSE [word2id |-> w2i, id2word |-> i2w, wordId |-> found]

\* ' '.join(ws)
RECURSIVE Join(_)
Join(ws) ==
    IF ws = <<>> THEN ""
    ELSE IF Len(ws) = 1 THEN ws[1]
    ELSE ws[1] \o " " \o Join(Tail(ws))

\* the loop of sequence2str over the ids, up to its break
RECURSIVE CleanWords(_)
CleanWords(s) ==
    IF s = <<>> THEN <<>>
    ELSE IF Head(s) = eosToken THEN <<>>
    ELSE IF Head(s) # padToken /\ Head(s) # goToken
         THEN <<id2word[Head(s)]>> \o CleanWords(Tail(s))
         ELSE CleanWords(Tail(s))

\* mutant: the loop skips the end token and goes on
sequence2str_NoBreak(s, cl, rev) ==
    IF s = <<>> THEN ""
    ELSE IF ~cl THEN Join([i \in 1..Len(s) |-> id2word[s[i]]])
    ELSE LET keep == SelectSeq(s, LAMBDA x : x \notin {eosToken, padToken, goToken})
             sent == [i \in 1..Len(keep) |-> id2word[keep[i]]]
         IN  Join(IF rev THEN Reverse(sent) ELSE sent)

sequence2str(s, cl, rev) ==
    IF s = <<>> THEN ""
    ELSE IF ~cl THEN Join([i \in 1..Len(s) |-> id2word[s[i]]])
    ELSE LET sent == CleanWords(s) IN
         Join(IF rev THEN Reverse(sent) ELSE sent)

\* the vocabulary of a corpus: the reserved tokens, then its tokens
CorpusWords == ReservedWords \o <<"good", "meal">>

RECURSIVE RegisterAll(_, _, _)
RegisterAll(w2i, i2w, ws) ==
    IF ws = <<>> THEN [word2id |-> w2i, id2word |-> i2w]
    ELSE LET r == getWordId(w2i, i2w, Head(ws), TRUE) IN
         RegisterAll(r.word2id, r.id2word, Tail(ws))

\* no getWordId call and no sequence2str call is in progress, and the
\* vocabulary is the one of the corpus
VocabLoaded ==
    /\ word2id = RegisterAll(<<>>, <<>>, CorpusWords).word2id
    /\ id2word = RegisterAll(<<>>, <<>>, CorpusWords).id2word
    /\ word = "" /\ create = TRUE /\ wordId = -1
    /\ added = CorpusWords

StrIdle ==
    /\ sequence = <<>> /\ clean = FALSE /\ reverse = FALSE /\ sentence = ""

\* the reserved ids of a loaded corpus
LoadedReserved ==
    [padToken |-> padToken, goToken |-> goToken, eosToken |-> eosToken,
     unknownToken |-> unknownToken]

\* no dataset file is being written or read and no batch list is being cut
TextIdle ==
    /\ reserved = LoadedReserved
    /\ data = None
    /\ trainingSamples = <<>>
    /\ corpusPc = "idle"
    /\ batches = <<>>

CallIdle ==
    previous = None

AskIdle ==
    driver = "none" /\ inputs = <<>> /\ question = <<>> /\ nbIgnored = 0
    /\ written = <<>> /\ daemonAnswer = None /\ askPc = "idle"

RunIdle ==
    /\ modelDir = {} /\ restored = {} /\ dirPc = "idle"
    /\ globStep = 0 /\ firstStep = 0 /\ processed = 0
    /\ saves = <<>> /\ interrupted = "none"
    /\ epoch = 0 /\ todo = 0 /\ trainPc = "idle"

AppIdle == TextIdle /\ CallIdle /\ AskIdle /\ RunIdle

----------------------------------------------------------------------------
(* The batch builder as a state machine *)

\* the locals of singlePredict before a call
NoDecode ==
    /\ symbol = <<>> /\ path = <<>> /\ probs = <<>>
    /\ lastTokenIndex = <<>> /\ paths = <<>> /\ log_probs = <<>>
    /\ candidates = <<>> /\ startStep = <<>>
    /\ reply_score_map = <<>> /\ best_score = None /\ answer = <<>>
    /\ sorted_replies = <<>>

\* no decode call is in progress
BeamIdle == NoDecode /\ pc = "idle"

InitBatch ==
    /\ args \in Configs
    /\ samples = <<>>
    /\ status = "input"
    /\ batch = NoBatch
    /\ BeamIdle
    /\ VocabLoaded
    /\ StrIdle
    /\ AppIdle

\* the caller appends one more sample to the list it will pass
AddSample ==
    /\ status = "input"
    /\ Len(samples) < MaxBatch
    /\ \E s \in (IF args.withFoods THEN Samples3 ELSE Samples2) :
           samples' = Append(samples, s)
    /\ UNCHANGED <<args, status, batch>>
    /\ UNCHANGED <<beamVars, vocabVars, strVars>>
    /\ UNCHANGED appVars

CreateBatch ==
    /\ status = "input"
    /\ LET e == BatchError(samples) IN
         /\ status' = e
         /\ batch' = IF e = "ok" THEN BuildBatch(samples) ELSE NoBatch
    /\ UNCHANGED <<args, samples>>
    /\ UNCHANGED <<beamVars, vocabVars, strVars>>
    /\ UNCHANGED appVars

NextBatch == AddSample \/ CreateBatch

SpecBatch == InitBatch /\ [][NextBatch]_vars

----------------------------------------------------------------------------
(* Chatbot.singlePredict: the beam traceback *)

BeamSize == 2       \* args.beam_size
MaxSteps == 3       \* largest number of decoder steps of a model output

Slots == 0..(BeamSize - 1)

\* num_steps = len(path)
NumSteps == Cardinality(DOMAIN path)

Min(S) == CHOOSE x \in S : \A y \in S : x <= y

\* mutant: the scan does not stop at the first end token
ScanLastToken_NoBreak(kk) ==
    LET hits == {i \in 0..(NumSteps - 2) : symbol[i][kk] = eosToken} IN
    IF hits = {} THEN NumSteps ELSE CHOOSE x \in hits : \A y \in hits : x >= y

\* the first loop: the step of the first end token of slot kk among the steps
\* 0..num_steps-2, and num_steps when there is none
ScanLastToken(kk) ==
    LET hits == {i \in 0..(NumSteps - 2) : symbol[i][kk] = eosToken} IN
    IF hits = {} THEN NumSteps ELSE Min(hits)

\* mutant: the cursor does not follow the backpointer
StepSlot_NoBackpointer(i, kk, lti, st) ==
    IF i > lti[kk] THEN st
    ELSE [paths     |-> [st.paths EXCEPT ![kk] = Append(@, symbol[i][st.curr[kk]])],
          log_probs |-> [st.log_probs EXCEPT ![kk] = @ + probs[i][st.curr[kk]]],
          curr      |-> st.curr,
          start     |-> [st.start EXCEPT ![kk] = IF @ = -1 THEN i ELSE @]]

\* mutant: one cursor is shared by all the slots
StepSlot_SharedCursor(i, kk, lti, st) ==
    IF i > lti[kk] THEN st
    ELSE [paths     |-> [st.paths EXCEPT ![kk] = Append(@, symbol[i][st.curr[kk]])],
          log_probs |-> [st.log_probs EXCEPT ![kk] = @ + probs[i][st.curr[kk]]],
          curr      |-> [j \in Slots |-> path[i][st.curr[kk]]],
          start     |-> [st.start EXCEPT ![kk] = IF @ = -1 THEN i ELSE @]]

\* one iteration of the inner loop: slot kk at step i
StepSlot(i, kk, lti, st) ==
    IF i > lti[kk] THEN st
    ELSE [paths     |-> [st.paths EXCEPT ![kk] = Append(@, symbol[i][st.curr[kk]])],
          log_probs |-> [st.log_probs EXCEPT ![kk] = @ + probs[i][st.curr[kk]]],
          curr      |-> [st.curr EXCEPT ![kk] = path[i][st.curr[kk]]],
          start     |-> [st.start EXCEPT ![kk] = IF @ = -1 THEN i ELSE @]]

\* the inner loop: for kk in range(beam_size)
RECURSIVE StepSlots(_, _, _, _)
StepSlots(i, kk, lti, st) ==
    IF kk = BeamSize THEN st
    ELSE StepSlots(i, kk + 1, lti, StepSlot(i, kk, lti, st))

\* the outer loop: for i in range(num_steps-1, -1, -1)
RECURSIVE TraceBack(_, _, _)
TraceBack(i, lti, st) ==
    IF i < 0 THEN st
    ELSE TraceBack(i - 1, lti, StepSlots(i, 0, lti, st))

\* paths, log_probs and curr before the loops
TraceInit ==
    [paths     |-> [kk \in Slots |-> <<>>],
     log_probs |-> [kk \in Slots |-> 0],
     curr      |-> [kk \in Slots |-> kk],
     start     |-> [kk \in Slots |-> -1]]

\* foutputs = paths[kk][::-1]
Foutputs(p) == Reverse(p)

----------------------------------------------------------------------------
(* Chatbot.singlePredict: scoring and answer selection *)

\* self.probDist, the maximum-likelihood bigram model of the response words:
\* ProbDist[<<prev, curr>>] is log P(curr | prev) for the bigrams the response
\* words contain, and every other bigram has probability zero
ProbDist ==
    [b \in {<<"<start>", "good">>, <<"good", "meal">>, <<"meal", "good">>,
            <<"meal", "meal">>} |->
        CASE b = <<"<start>", "good">> -> -1
          [] b = <<"good", "meal">> -> -2
          [] b = <<"meal", "good">> -> -3
          [] b = <<"meal", "meal">> -> -1]

\* bigramP > 0
BigramSeen(prevWord, currWord) == <<prevWord, currWord>> \in DOMAIN ProbDist

\* s[:n] for n >= 0
Prefix(s, n) == SubSeq(s, 1, Min({n, Len(s)}))

\* mutant: a bigram of probability zero does not become the predecessor
LogLMPenalty_SkipsZero(prevWord, ids) ==
    LET step[i \in 0..Len(ids)] ==
            IF i = 0 THEN [sum |-> 0, prev |-> prevWord]
            ELSE LET currWord == id2word[ids[i]] IN
                 IF BigramSeen(step[i - 1].prev, currWord)
                 THEN [sum  |-> step[i - 1].sum
                                  + ProbDist[<<step[i - 1].prev, currWord>>],
                       prev |-> currWord]
                 ELSE step[i - 1]
    IN  step[Len(ids)].sum

\* the loop of lines 561-568 over the ids, from the predecessor prevWord
LogLMPenalty(prevWord, ids) ==
    LET step[i \in 0..Len(ids)] ==
            IF i = 0 THEN [sum |-> 0, prev |-> prevWord]
            ELSE LET currWord == id2word[ids[i]] IN
                 [sum  |-> IF BigramSeen(step[i - 1].prev, currWord)
                           THEN step[i - 1].sum
                                    + ProbDist[<<step[i - 1].prev, currWord>>]
                           ELSE step[i - 1].sum,
                  prev |-> currWord]
    IN  step[Len(ids)].sum

\* mutant: the length term is left out
Score_NoLengthTerm(p, lp) ==
    IF args.MMI
    THEN lp - args.lambda_wt
                * LogLMPenalty("<start>", Prefix(Foutputs(p), args.gamma_wt))
    ELSE lp

\* the score of a slot whose path is p and whose log-probability is lp
Score(p, lp) ==
    IF args.MMI
    THEN LET length_term == args.gamma_wt * Len(p)
             log_LM_penalty ==
                 LogLMPenalty("<start>", Prefix(Foutputs(p), args.gamma_wt))
             LM_term == args.lambda_wt * log_LM_penalty
         IN  lp - LM_term + length_term
    ELSE lp

\* reply in reply_score_map
HasKey(map, reply) == \E n \in 1..Len(map) : map[n][1] = reply

\* mutant: a duplicate takes part in the answer selection
ScoreSlot_NoDedup(kk, tb, st) ==
    LET foutputs == Foutputs(tb.paths[kk])
        reply == sequence2str(foutputs, TRUE, FALSE)
        score == Score(tb.paths[kk], tb.log_probs[kk])
        better == kk = 0 \/ score > st.best_score
    IN  [candidates      |-> Append(st.candidates, foutputs),
         reply_score_map |-> IF HasKey(st.reply_score_map, reply)
                             THEN st.reply_score_map
                             ELSE Append(st.reply_score_map, <<reply, score>>),
         best_score      |-> IF better THEN score ELSE st.best_score,
         answer          |-> IF better THEN foutputs ELSE st.answer]

\* mutant: the candidate is appended after the duplicate test
ScoreSlot_DropsDuplicate(kk, tb, st) ==
    LET foutputs == Foutputs(tb.paths[kk])
        reply == sequence2str(foutputs, TRUE, FALSE)
    IN  IF HasKey(st.reply_score_map, reply)
        THEN st
        ELSE LET score == Score(tb.paths[kk], tb.log_probs[kk])
                 better == kk = 0 \/ score > st.best_score
             IN  [candidates      |-> Append(st.candidates, foutputs),
                  reply_score_map |-> Append(st.reply_score_map, <<reply, score>>),
                  best_score      |-> IF better THEN score ELSE st.best_score,
                  answer          |-> IF better THEN foutputs ELSE st.answer]

\* mutant: a tie replaces the best so far
ScoreSlot_TieReplaces(kk, tb, st) ==
    LET foutputs == Foutputs(tb.paths[kk])
        reply == sequence2str(foutputs, TRUE, FALSE)
    IN  IF HasKey(st.reply_score_map, reply)
        THEN [st EXCEPT !.candidates = Append(@, foutputs)]
        ELSE LET score == Score(tb.paths[kk], tb.log_probs[kk])
                 better == kk = 0 \/ score >= st.best_score
             IN  [candidates      |-> Append(st.candidates, foutputs),
                  reply_score_map |-> Append(st.reply_score_map, <<reply, score>>),
                  best_score      |-> IF better THEN score ELSE st.best_score,
                  answer          |-> IF better THEN foutputs ELSE st.answer]

\* one iteration of the loop of lines 551-583: slot kk, after the traceback tb
ScoreSlot(kk, tb, st) ==
    LET foutputs == Foutputs(tb.paths[kk])
        reply == sequence2str(foutputs, TRUE, FALSE)
    IN  IF HasKey(st.reply_score_map, reply)
        THEN [st EXCEPT !.candidates = Append(@, foutputs)]
        ELSE LET score == Score(tb.paths[kk], tb.log_probs[kk])
                 better == kk = 0 \/ score > st.best_score
             IN  [candidates      |-> Append(st.candidates, foutputs),
                  reply_score_map |-> Append(st.reply_score_map, <<reply, score>>),
                  best_score      |-> IF better THEN score ELSE st.best_score,
                  answer          |-> IF better THEN foutputs ELSE st.answer]

\* the loop: for kk in range(beam_size)
RECURSIVE ScoreSlots(_, _, _)
ScoreSlots(kk, tb, st) ==
    IF kk = BeamSize THEN st
    ELSE ScoreSlots(kk + 1, tb, ScoreSlot(kk, tb, st))

\* mutant: the dictionary of the call before is kept
ScoreInit_KeepsMap ==
    [candidates |-> <<>>, reply_score_map |-> reply_score_map,
     best_score |-> None, answer |-> <<>>]

\* candidates, reply_score_map, best_score and answer before the loop
ScoreInit ==
    [candidates |-> <<>>, reply_score_map |-> <<>>, best_score |-> None,
     answer |-> <<>>]

\* mutant: ascending order
SortedReplies_Ascending(items) ==
    LET RECURSIVE Ins(_, _)
        Ins(sorted, x) ==
            IF sorted = <<>> THEN <<x>>
            ELSE IF Head(sorted)[2] <= x[2]
                 THEN <<Head(sorted)>> \o Ins(Tail(sorted), x)
                 ELSE <<x>> \o sorted
        RECURSIVE Srt(_, _)
        Srt(done, rest) ==
            IF rest = <<>> THEN done ELSE Srt(Ins(done, Head(rest)), Tail(rest))
    IN  Srt(<<>>, items)

\* sorted(items, key=operator.itemgetter(1), reverse=True): a stable sort,
\* an item goes behind every item whose score is not smaller
SortedReplies(items) ==
    LET RECURSIVE Ins(_, _)
        Ins(sorted, x) ==
            IF sorted = <<>> THEN <<x>>
            ELSE IF Head(sorted)[2] >= x[2]
                 THEN <<Head(sorted)>> \o Ins(Tail(sorted), x)
                 ELSE <<x>> \o sorted
        RECURSIVE Srt(_, _)
        Srt(done, rest) ==
            IF rest = <<>> THEN done ELSE Srt(Ins(done, Head(rest)), Tail(rest))
    IN  Srt(<<>>, items)

----------------------------------------------------------------------------
(* The decoder as a state machine: the model emits its output step by step,
   then singlePredict reconstructs the candidates *)

\* the token of a cell that holds no end token
Tok(i, k) == 4 + ((i + k) % 2)

SymbolRows(i) == {r \in [Slots -> {eosToken, 4, 5}] :
                     \A k \in Slots : r[k] \in {eosToken, Tok(i, k)}}

\* backpointer rows: each slot extends itself, its neighbour or the first slot
PathRows == {[k \in Slots |-> k], [k \in Slots |-> (k + 1) % BeamSize],
             [k \in Slots |-> 0]}

\* every cell has its own log-probability, so a sum tells which cells it adds
ProbRow(i) == [k \in Slots |-> 0 - 2 ^ (i * BeamSize + k)]

\* f extended by value v at index n
Extend(f, n, v) == [i \in 0..n |-> IF i < n THEN f[i] ELSE v]

InitBeam ==
    /\ args \in {c \in Configs : c.test /\ ~c.watsonMode /\ ~c.food_context
                                 /\ ~c.first_step /\ ~c.withFoods
                                 /\ ~c.match_encoder_decoder_input}
    /\ samples = <<>>
    /\ status = "input"
    /\ batch = NoBatch
    /\ NoDecode
    /\ pc = "model"
    /\ VocabLoaded
    /\ StrIdle
    /\ AppIdle

\* the model produces the arrays of one more decoder step
ModelStep ==
    /\ pc = "model"
    /\ NumSteps < MaxSteps
    /\ \E sr \in SymbolRows(NumSteps), pr \in PathRows :
         /\ symbol' = Extend(symbol, NumSteps, sr)
         /\ path' = Extend(path, NumSteps, pr)
         /\ probs' = Extend(probs, NumSteps, ProbRow(NumSteps))
    /\ UNCHANGED <<pc, lastTokenIndex, paths, log_probs, candidates, startStep,
                   reply_score_map, best_score, answer, sorted_replies>>
    /\ UNCHANGED <<batchVars, vocabVars, strVars>>
    /\ UNCHANGED appVars

\* singlePredict, lines 528-594
Predict ==
    /\ pc = "model"
    /\ NumSteps >= 1
    /\ LET lti == [kk \in Slots |-> ScanLastToken(kk)]
           st == TraceBack(NumSteps - 1, lti, TraceInit)
           sc == ScoreSlots(0, st, ScoreInit)
       IN  /\ lastTokenIndex' = lti
           /\ paths' = st.paths
           /\ log_probs' = st.log_probs
           /\ startStep' = st.start
           /\ candidates' = sc.candidates
           /\ reply_score_map' = sc.reply_score_map
           /\ best_score' = sc.best_score
           /\ answer' = sc.answer
           /\ sorted_replies' = IF args.MMI
                                THEN SortedReplies(sc.reply_score_map)
                                ELSE sorted_replies
    /\ pc' = "done"
    /\ UNCHANGED <<symbol, path, probs>>
    /\ UNCHANGED <<batchVars, vocabVars, strVars>>
    /\ UNCHANGED appVars

NextBeam == ModelStep \/ Predict

SpecBeam == InitBeam /\ [][NextBeam]_vars

----------------------------------------------------------------------------
(* The decoder with scores that tie or favour later slots, with and without
   the MMI reranking *)

MaxRankSteps == 2   \* largest number of decoder steps of such an output

\* log-probability rows: all slots equal, the first slot best, the last best
RankProbRows == {[k \in Slots |-> -1], [k \in Slots |-> 0 - (k + 1)],
                 [k \in Slots |-> k - BeamSize]}

\* backpointers and log-probabilities of a step: each slot extends itself,
\* with any of the rows above, or all slots extend the first slot, with
\* equal log-probabilities
RankRows ==
    {[path |-> [k \in Slots |-> k], probs |-> lr] : lr \in RankProbRows}
        \cup {[path |-> [k \in Slots |-> 0], probs |-> [k \in Slots |-> -1]]}

\* --MMI with --lambda_wt and --gamma_wt
RankConfigs ==
    {[c EXCEPT !.MMI = m, !.lambda_wt = l, !.gamma_wt = g] :
        c \in {d \in Configs : d.test /\ ~d.watsonMode /\ ~d.food_context
                                /\ ~d.first_step /\ ~d.withFoods
                                /\ ~d.match_encoder_decoder_input},
        m \in BOOLEAN, l \in {1, 2}, g \in {1, 2}}

InitRank ==
    /\ args \in {c \in RankConfigs : ~c.MMI => (c.lambda_wt = 1 /\ c.gamma_wt = 1)}
    /\ samples = <<>>
    /\ status = "input"
    /\ batch = NoBatch
    /\ NoDecode
    /\ pc = "model"
    /\ VocabLoaded
    /\ StrIdle
    /\ AppIdle

ModelStepRank ==
    /\ pc = "model"
    /\ NumSteps < MaxRankSteps
    /\ \E sr \in SymbolRows(NumSteps), row \in RankRows :
         /\ symbol' = Extend(symbol, NumSteps, sr)
         /\ path' = Extend(path, NumSteps, row.path)
         /\ probs' = Extend(probs, NumSteps, row.probs)
    /\ UNCHANGED <<pc, lastTokenIndex, paths, log_probs, candidates, startStep,
                   reply_score_map, best_score, answer, sorted_replies>>
    /\ UNCHANGED <<batchVars, vocabVars, strVars>>
    /\ UNCHANGED appVars

NextRank == ModelStepRank \/ Predict

SpecRank == InitRank /\ [][NextRank]_vars

----------------------------------------------------------------------------
(* The vocabulary as a state machine: createCorpus registers the reserved
   tokens, then the corpus and the questions are converted token by token *)

InitVocab ==
    /\ args \in {c \in Configs : ~c.test /\ ~c.watsonMode /\ ~c.food_context
                                 /\ ~c.first_step /\ ~c.withFoods
                                 /\ ~c.match_encoder_decoder_input}
    /\ samples = <<>>
    /\ status = "input"
    /\ batch = NoBatch
    /\ BeamIdle
    /\ word2id = <<>> /\ id2word = <<>>
    /\ word = "" /\ create = TRUE /\ wordId = -1
    /\ added = <<>>
    /\ StrIdle
    /\ AppIdle

\* one call getWordId(wd, create=cr)
Call(wd, cr) ==
    LET r == getWordId(word2id, id2word, wd, cr) IN
    /\ word2id' = r.word2id
    /\ id2word' = r.id2word
    /\ wordId' = r.wordId
    /\ word' = wd
    /\ create' = cr
    /\ added' = IF r.word2id # word2id THEN Append(added, Lower(wd)) ELSE added

\* createCorpus registers the next reserved token
CreateCorpus ==
    /\ Size(word2id) < Len(ReservedWords)
    /\ Call(ReservedWords[Size(word2id) + 1], TRUE)
    /\ UNCHANGED <<batchVars, beamVars, strVars>>
    /\ UNCHANGED appVars

\* extractText (create=True) and sentence2enco (create=False)
GetWordId ==
    /\ Size(word2id) >= Len(ReservedWords)
    /\ \E wd \in Words \cup {"<eos>"}, cr \in BOOLEAN : Call(wd, cr)
    /\ UNCHANGED <<batchVars, beamVars, strVars>>
    /\ UNCHANGED appVars

NextVocab == CreateCorpus \/ GetWordId

SpecVocab == InitVocab /\ [][NextVocab]_vars

----------------------------------------------------------------------------
(* sequence2str as a function of its arguments *)

\* the ids of the sequences: the reserved ids and the ids of two tokens
StrIds == {padToken, goToken, eosToken, 4, 5}

StrSeqs == UNION {[1..n -> StrIds] : n \in 0..MaxSeqLen}

InitStr ==
    /\ args \in {c \in Configs : c.test /\ ~c.watsonMode /\ ~c.food_context
                                 /\ ~c.first_step /\ ~c.withFoods
                                 /\ ~c.match_encoder_decoder_input}
    /\ samples = <<>>
    /\ status = "input"
    /\ batch = NoBatch
    /\ NoDecode
    /\ pc = "sequence2str"
    /\ VocabLoaded
    /\ AppIdle
    /\ sequence \in StrSeqs
    /\ clean \in BOOLEAN
    /\ reverse \in BOOLEAN
    /\ sentence = ""

Sequence2Str ==
    /\ pc = "sequence2str"
    /\ sentence' = sequence2str(sequence, clean, reverse)
    /\ pc' = "returned"
    /\ UNCHANGED <<symbol, path, probs, lastTokenIndex, paths, log_probs,
                   candidates, startStep, reply_score_map, best_score, answer,
                   sorted_replies>>
    /\ UNCHANGED <<sequence, clean, reverse>>
    /\ UNCHANGED <<batchVars, vocabVars>>
    /\ UNCHANGED appVars

NextStr == Sequence2Str

SpecStr == InitStr /\ [][NextStr]_vars

----------------------------------------------------------------------------
(* The corpus: loadCorpus builds the vocabulary and the training samples
   from the conversations of a corpus reader and saves them in the dataset
   file, or restores them from the file of an earlier run *)

\* a Python str and a Python tuple or list, as the values createCorpus
\* subscripts and iterates
Str(s) == [kind |-> "str", str |-> s]
Tuple(xs) == [kind |-> "tuple", items |-> xs]

\* the meal descriptions, food descriptions and responses of the readers
Texts == {"good meal", "rice. MEAL good", "soup", "s"}

\* the characters of a str
Chars(s) ==
    CASE s = "good meal" -> <<"g", "o", "o", "d", " ", "m", "e", "a", "l">>
      [] s = "rice. MEAL good" ->
             <<"r", "i", "c", "e", ".", " ", "M", "E", "A", "L", " ",
               "g", "o", "o", "d">>
      [] s = "soup" -> <<"s", "o", "u", "p">>
      [] s = "" -> <<>>
      [] OTHER -> <<s>>

\* nltk.word_tokenize of each sentence of nltk.sent_tokenize(line)
Sentences(s) ==
    CASE s = "good meal" -> <<<<"good", "meal">>>>
      [] s = "rice. MEAL good" -> <<<<"rice", ".">>, <<"MEAL", "good">>>>
      [] s = "" -> <<>>
      [] s = " " -> <<>>
      [] OTHER -> <<<<s>>>>

\* conversation[i]
Subscript(c, i) ==
    IF c.kind = "dict" THEN [status |-> "KeyError", value |-> None]
    ELSE IF c.kind = "str"
    THEN IF i < Len(Chars(c.str))
         THEN [status |-> "ok", value |-> Str(Chars(c.str)[i + 1])]
         ELSE [status |-> "IndexError", value |-> None]
    ELSE IF i < Len(c.items)
         THEN [status |-> "ok", value |-> c.items[i + 1]]
         ELSE [status |-> "IndexError", value |-> None]

\* the values of "for x in foods"
Elements(c) ==
    IF c.kind = "str"
    THEN [i \in 1..Len(Chars(c.str)) |-> Str(Chars(c.str)[i])]
    ELSE c.items

\* the part of a TextData that createCorpus changes, with the exception
\* raised if any
Corpus(w2i, i2w, ts, st) ==
    [word2id |-> w2i, id2word |-> i2w, trainingSamples |-> ts, status |-> st]

\* [self.getWordId(token, create) for token in tokens]
RECURSIVE WordIds(_, _, _, _)
WordIds(w2i, i2w, tokens, cr) ==
    IF tokens = <<>> THEN [word2id |-> w2i, id2word |-> i2w, ids |-> <<>>]
    ELSE LET Rest(r) ==
                 [WordIds(r.word2id, r.id2word, Tail(tokens), cr)
                     EXCEPT !.ids = <<r.wordId>> \o @]
         IN  Rest(getWordId(w2i, i2w, Head(tokens), cr))

\* extractText(line, isTarget): the sentences are added one by one, the last
\* ones first for a question and the first ones first for an answer, until
\* one does not fit in args.maxLength; loop[i] is the state after i
\* iterations
extractText(cs, line, isTarget, a) ==
    IF line.kind # "str"
    THEN [corpus |-> [cs EXCEPT !.status = "TypeError"], words |-> <<>>]
    ELSE
    LET Return(st) ==
            [corpus |-> [cs EXCEPT !.word2id = st.word2id,
                                   !.id2word = st.id2word],
             words |-> st.words]
        Added(st, r) ==
            [word2id |-> r.word2id, id2word |-> r.id2word,
             words |-> IF isTarget THEN st.words \o r.ids
                       ELSE r.ids \o st.words,
             broke |-> FALSE]
        Add(st, tokens) ==
            IF st.broke THEN st
            ELSE IF Len(st.words) + Len(tokens) <= a.maxLength
            THEN Added(st, WordIds(st.word2id, st.id2word, tokens,
                                   ~a.finetune))
            ELSE [st EXCEPT !.broke = TRUE]
        Loop(sentencesToken) ==
            LET n == Len(sentencesToken)
                loop[i \in 0..n] ==
                    IF i = 0
                    THEN [word2id |-> cs.word2id, id2word |-> cs.id2word,
                          words |-> <<>>, broke |-> FALSE]
                    ELSE Add(loop[i - 1],
                             IF isTarget THEN sentencesToken[i]
                             ELSE sentencesToken[n - (i - 1)])
            IN  Return(loop[n])
    IN  Loop(Sentences(line.str))

\* "if inputWords and targetWords: self.trainingSamples.append(sample)"
AppendSample(cs, inputWords, targetWords, sample) ==
    IF cs.status = "ok" /\ inputWords # <<>> /\ targetWords # <<>>
    THEN [cs EXCEPT !.trainingSamples = Append(@, sample)]
    ELSE cs

\* extractMeal(meal)
extractMeal(cs, meal, a) ==
    LET Sample(i, t) ==
            AppendSample(t.corpus, i.words, t.words, <<i.words, t.words>>)
        Target(i) ==
            Sample(i, IF i.corpus.status = "ok"
                      THEN extractText(i.corpus, meal, TRUE, a) ELSE i)
    IN  Target(extractText(cs, meal, FALSE, a))

\* extractHealthyComments(meal, response, foods)
extractHealthyComments(cs, meal, response, foods, a) ==
    LET Sample(i, t) ==
            AppendSample(t.corpus, i.words, t.words,
                         <<i.words, t.words, foods>>)
        Target(i) ==
            Sample(i, IF i.corpus.status = "ok"
                      THEN extractText(i.corpus, response, TRUE, a) ELSE i)
    IN  Target(extractText(cs, meal, FALSE, a))

\* extractConversation(conversation): each line is the question of the
\* line that follows it
extractConversation(cs, conversation, a) ==
    IF conversation.kind # "dict" THEN [cs EXCEPT !.status = "TypeError"]
    ELSE
    LET lines == conversation.lines
        n == Len(lines)
        Sample(i, t) ==
            AppendSample(t.corpus, i.words, t.words, <<i.words, t.words>>)
        Target(i, k) ==
            Sample(i, extractText(i.corpus, Str(lines[k + 1]), TRUE, a))
        Pair(prev, k) ==
            IF prev.status # "ok" THEN prev
            ELSE Target(extractText(prev, Str(lines[k]), FALSE, a), k)
        loop[k \in 0..(IF n = 0 THEN 0 ELSE n - 1)] ==
            IF k = 0 THEN cs ELSE Pair(loop[k - 1], k)
    IN  loop[IF n = 0 THEN 0 ELSE n - 1]

\* extractFoods(foods, meal)
extractFoods(cs, foods, meal, a) ==
    LET Sample(i, t) ==
            AppendSample(t.corpus, i.words, t.words, <<i.words, t.words>>)
        Target(i) ==
            Sample(i, IF i.corpus.status = "ok"
                      THEN extractText(i.corpus, meal, TRUE, a) ELSE i)
        Described(prev, r) ==
            [corpus |-> r.corpus, words |-> prev.words \o r.words]
        Describe(prev, x) ==
            IF prev.corpus.status # "ok" THEN prev
            ELSE Described(prev, extractText(prev.corpus, x, FALSE, a))
        Identified(prev, r) ==
            [corpus |-> [prev.corpus EXCEPT !.word2id = r.word2id,
                                            !.id2word = r.id2word],
             words |-> Append(prev.words, r.wordId)]
        Identify(prev, x) ==
            IF prev.corpus.status # "ok" THEN prev
            ELSE IF x.kind # "str"
            THEN [prev EXCEPT !.corpus.status = "AttributeError"]
            ELSE Identified(prev, getWordId(prev.corpus.word2id,
                                            prev.corpus.id2word, x.str, TRUE))
        \* the loop over foods: descr[k] and ids[k] after k iterations
        Loop(xs) ==
            LET n == Len(xs)
                descr[k \in 0..n] ==
                    IF k = 0 THEN [corpus |-> cs, words |-> <<>>]
                    ELSE Describe(descr[k - 1], xs[k])
                ids[k \in 0..n] ==
                    IF k = 0 THEN [corpus |-> cs, words |-> <<>>]
                    ELSE Identify(ids[k - 1], xs[k])
            IN  IF a.encode_food_descrips \/ a.encode_single_food_descrip
                THEN Target(descr[n])
                ELSE IF a.encode_food_ids THEN Target(ids[n])
                ELSE Target([corpus |-> cs, words |-> <<>>])
    IN  Loop(Elements(foods))

\* the body of createCorpus's loop: the extraction chosen for one
\* conversation
ExtractOne(cs, c, a) ==
    LET Failed(st) == [cs EXCEPT !.status = st]
        Three(c0, c1, c2) ==
            IF a.corpus = "cornell" THEN extractConversation(cs, c, a)
            ELSE IF a.encode_food_descrips \/ a.encode_food_ids
            THEN IF c0.status # "ok" THEN Failed(c0.status)
                 ELSE IF c1.status # "ok" THEN Failed(c1.status)
                 ELSE extractFoods(cs, c0.value, c1.value, a)
            ELSE IF a.corpus = "healthy-comments" /\ ~a.finetune
            THEN IF c0.status # "ok" THEN Failed(c0.status)
                 ELSE IF c1.status # "ok" THEN Failed(c1.status)
                 ELSE IF c2.status # "ok" THEN Failed(c2.status)
                 ELSE extractHealthyComments(cs, c0.value, c1.value,
                                             c2.value, a)
            ELSE IF a.encode_single_food_descrip
            THEN IF c0.status # "ok" THEN Failed(c0.status)
                 ELSE IF c1.status # "ok" THEN Failed(c1.status)
                 ELSE extractFoods(cs, Tuple(<<c0.value>>), c1.value, a)
            ELSE extractMeal(cs, c, a)
    IN  Three(Subscript(c, 0), Subscript(c, 1), Subscript(c, 2))

\* the four attributes createCorpus assigns from its first four getWordId
\* calls
ReservedOf(ids) ==
    [padToken |-> ids[1], goToken |-> ids[2], eosToken |-> ids[3],
     unknownToken |-> ids[4]]

\* createCorpus(conversations): the reserved tokens are registered, then
\* every conversation is extracted; loop[k] is the state after k
\* conversations
createCorpus(cs, conversations, a) ==
    LET n == Len(conversations)
        One(prev, c) ==
            IF prev.status # "ok" THEN prev ELSE ExtractOne(prev, c, a)
        Loop(std) ==
            LET loop[k \in 0..n] ==
                    IF k = 0
                    THEN [cs EXCEPT !.word2id = std.word2id,
                                    !.id2word = std.id2word]
                    ELSE One(loop[k - 1], conversations[k])
            IN  [corpus |-> loop[n], reserved |-> ReservedOf(std.ids)]
    IN  Loop(WordIds(cs.word2id, cs.id2word, ReservedWords, TRUE))

\* the dataset file after open(..., 'wb') and before pickle.dump
EmptyFile == [empty |-> TRUE]

\* saveDataset: the file is opened for writing, then the dictionary is
\* built; self.healthyData is an attribute only when loadCorpus assigned it
saveDataset(cs, a, responseWords) ==
    IF a.corpus = "healthy-comments"
    THEN [status |-> "ok",
          data |-> [word2id |-> cs.word2id, id2word |-> cs.id2word,
                    trainingSamples |-> cs.trainingSamples,
                    responseWords |-> responseWords]]
    ELSE [status |-> "AttributeError", data |-> EmptyFile]

\* mutant: the end-of-sequence id is restored from the start token
RestoreReserved_EosFromGo(w2i) ==
    [padToken |-> w2i["<pad>"], goToken |-> w2i["<go>"],
     eosToken |-> w2i["<go>"], unknownToken |-> w2i["<unknown>"]]

\* "self.padToken = self.word2id["<pad>"]" and the three lines after it
RestoreReserved(w2i) ==
    [padToken |-> w2i["<pad>"], goToken |-> w2i["<go>"],
     eosToken |-> w2i["<eos>"], unknownToken |-> w2i["<unknown>"]]

\* loadDataset: the attributes are restored from the file
loadDataset(file, old) ==
    IF file = EmptyFile
    THEN [corpus |-> [old.corpus EXCEPT !.status = "EOFError"],
          reserved |-> old.reserved]
    ELSE IF ~({"<pad>", "<go>", "<eos>", "<unknown>"} \subseteq
                  DOMAIN file.word2id)
    THEN [corpus |-> Corpus(file.word2id, file.id2word, file.trainingSamples,
                            "KeyError"),
          reserved |-> old.reserved]
    ELSE [corpus |-> Corpus(file.word2id, file.id2word, file.trainingSamples,
                            "ok"),
          reserved |-> RestoreReserved(file.word2id)]

\* loadCorpus: self is the TextData the constructor prepared, file the
\* dataset file (None when absent), conversations what the reader of
\* args.corpus returns, meals what MealData.getMeals returns and
\* responseWords what HealthyData.getWords returns
loadCorpus(self, file, a, conversations, meals, responseWords) ==
    LET Raised(c, r, f) ==
            [corpus |-> c, reserved |-> r, data |-> f, pc |-> c.status]
        Asserted(c, r, f, done) ==
            [corpus |-> c, reserved |-> r, data |-> f,
             pc |-> IF r.padToken = 0 THEN done ELSE "AssertionError"]
        Saved(cr, sv) ==
            IF sv.status # "ok"
            THEN Raised([cr.corpus EXCEPT !.status = sv.status],
                        cr.reserved, sv.data)
            ELSE Asserted(cr.corpus, cr.reserved, sv.data, "created")
        Created(cr) ==
            IF cr.corpus.status # "ok"
            THEN Raised(cr.corpus, cr.reserved, file)
            ELSE Saved(cr, saveDataset(cr.corpus, a, responseWords))
        Finetuned(ft) ==
            IF ft.corpus.status # "ok"
            THEN Raised(ft.corpus, ft.reserved, file)
            ELSE Asserted(ft.corpus, ft.reserved, file, "loaded")
        Loaded(ld) ==
            IF ld.corpus.status # "ok"
            THEN Raised(ld.corpus, ld.reserved, file)
            ELSE IF a.finetune /\ ~a.test
            THEN Finetuned(createCorpus(
                     [ld.corpus EXCEPT !.trainingSamples = <<>>], meals, a))
            ELSE Asserted(ld.corpus, ld.reserved, file, "loaded")
    IN  IF file = None
        THEN Created(createCorpus(self.corpus, conversations, a))
        ELSE Loaded(loadDataset(file, self))

----------------------------------------------------------------------------
(* The corpus loader as a state machine: a run constructs a TextData, whose
   constructor calls loadCorpus; a later run finds the dataset file the
   earlier one left *)

MaxConversations == 2

\* the sequences of 1..n elements of S
RECURSIVE ListsUpTo(_, _)
ListsUpTo(S, n) ==
    IF n = 0 THEN {}
    ELSE {<<x>> : x \in S} \cup
         {Append(l, x) : l \in ListsUpTo(S, n - 1), x \in S}

\* MealData.getMeals()
Meals == {Str(t) : t \in Texts}

\* CornellData.getConversations()
CornellConversations ==
    {[kind |-> "dict", lines |-> l] :
        l \in {<<"good meal", "soup">>, <<"soup">>,
               <<"rice. MEAL good", "good meal", "soup">>}}

\* zip(getFoodDescrips(), getMeals()) and zip(getFoodIDs(), getMeals()),
\* zip(getFoodIDs(), getResponses())
FoodsAndMeals ==
    {Tuple(<<Tuple(<<Str("soup")>>), Str("good meal")>>),
     Tuple(<<Tuple(<<Str("rice. MEAL good"), Str("soup")>>), Str("soup")>>),
     Tuple(<<Tuple(<<>>), Str("good meal")>>)}

\* zip(getSingleFoodDescrips(), getAlignments())
FoodAndAlignment ==
    {Tuple(<<Str("soup"), Str("good meal")>>),
     Tuple(<<Str("rice. MEAL good"), Str("soup")>>)}

\* zip(getMeals(), getResponses(), getFoodEmb())
HealthyComments ==
    {Tuple(<<Str("good meal"), Str("soup"), ZeroVec>>),
     Tuple(<<Str("rice. MEAL good"), Str("good meal"), ZeroVec>>),
     Tuple(<<Str("s"), Str("rice. MEAL good"), ZeroVec>>)}

\* what loadCorpus passes to createCorpus when it creates the dataset
Conversations(a) ==
    ListsUpTo(
        IF a.corpus = "cornell" THEN CornellConversations
        ELSE IF a.corpus = "nutrition"
        THEN IF a.encode_food_descrips THEN FoodsAndMeals
             ELSE IF a.encode_single_food_descrip THEN FoodAndAlignment
             ELSE IF a.encode_food_ids THEN FoodsAndMeals
             ELSE Meals
        ELSE IF a.encode_food_ids THEN FoodsAndMeals
        ELSE HealthyComments,
        MaxConversations)

\* HealthyData.getWords()
ResponseWords == <<"good", "meal", "good">>

CorpusConfigs ==
    [corpus : {"cornell", "nutrition", "healthy-comments"},
     finetune : BOOLEAN, test : BOOLEAN,
     encode_food_descrips : BOOLEAN, encode_single_food_descrip : BOOLEAN,
     encode_food_ids : BOOLEAN, maxLength : {MaxLength}]

\* the part of samplesDir the constructor derives from the arguments
SamplesDir(a) ==
    IF a.corpus = "nutrition"
    THEN IF a.encode_food_descrips THEN "food-descrip"
         ELSE IF a.encode_single_food_descrip THEN "single-food-descrip"
         ELSE IF a.encode_food_ids THEN "food-id"
         ELSE "meal"
    ELSE IF a.corpus = "healthy-comments"
    THEN IF a.encode_food_ids THEN "healthy-comments-foodID"
         ELSE "healthy-comments"
    ELSE "samples"

\* the attributes the constructor assigns before it calls loadCorpus
Constructed ==
    /\ reserved' = [padToken |-> -1, goToken |-> -1, eosToken |-> -1,
                    unknownToken |-> -1]
    /\ trainingSamples' = <<>>
    /\ word2id' = <<>>
    /\ id2word' = <<>>
    /\ corpusPc' = "init"

InitCorpus ==
    /\ args \in CorpusConfigs
    /\ samples = <<>> /\ status = "input" /\ batch = NoBatch
    /\ BeamIdle
    /\ StrIdle
    /\ word2id = <<>> /\ id2word = <<>>
    /\ word = "" /\ create = TRUE /\ wordId = -1 /\ added = <<>>
    /\ reserved = [padToken |-> -1, goToken |-> -1, eosToken |-> -1,
                   unknownToken |-> -1]
    /\ data = None
    /\ trainingSamples = <<>>
    /\ corpusPc = "init"
    /\ batches = <<>>
    /\ CallIdle /\ AskIdle /\ RunIdle

\* the constructor's call of loadCorpus
LoadCorpus ==
    /\ corpusPc = "init"
    /\ \E conversations \in (IF data = None THEN Conversations(args)
                             ELSE {<<>>}) :
       \E meals \in (IF data # None /\ args.finetune /\ ~args.test
                     THEN ListsUpTo(Meals, MaxConversations) ELSE {<<>>}) :
          \E r \in {loadCorpus([corpus |-> Corpus(word2id, id2word,
                                                    trainingSamples, "ok"),
                                 reserved |-> reserved],
                                data, args, conversations, meals,
                                ResponseWords)} :
              /\ word2id' = r.corpus.word2id
              /\ id2word' = r.corpus.id2word
              /\ trainingSamples' = r.corpus.trainingSamples
              /\ reserved' = r.reserved
              /\ data' = r.data
              /\ corpusPc' = r.pc
    /\ UNCHANGED <<word, create, wordId, added, batches>>
    /\ UNCHANGED <<batchVars, beamVars, strVars, callVars, askVars, runVars>>

\* the program is run again with arguments that name the same dataset file
Restart ==
    /\ corpusPc # "init"
    /\ \E a \in CorpusConfigs :
           /\ SamplesDir(a) = SamplesDir(args)
           /\ args' = a
    /\ Constructed
    /\ UNCHANGED <<data, batches>>
    /\ UNCHANGED <<samples, status, batch, word, create, wordId, added>>
    /\ UNCHANGED <<beamVars, strVars, callVars, askVars, runVars>>

NextCorpus == LoadCorpus \/ Restart

SpecCorpus == InitCorpus /\ [][NextCorpus]_vars

----------------------------------------------------------------------------
(* A second call on the arguments of the first: _createBatch is called again
   on the list it was given, singlePredict's traceback and scoring run again
   on the output of the model *)

\* the locals of singlePredict after lines 528-594
Decode ==
    LET lti == [kk \in Slots |-> ScanLastToken(kk)]
        st == TraceBack(NumSteps - 1, lti, TraceInit)
        sc == ScoreSlots(0, st, ScoreInit)
    IN  [lastTokenIndex |-> lti, paths |-> st.paths,
         log_probs |-> st.log_probs, startStep |-> st.start,
         candidates |-> sc.candidates,
         reply_score_map |-> sc.reply_score_map,
         best_score |-> sc.best_score, answer |-> sc.answer,
         sorted_replies |-> IF args.MMI
                            THEN SortedReplies(sc.reply_score_map)
                            ELSE sorted_replies]

\* what the last call returned: the batch or the exception of _createBatch,
\* "return answer, candidates" of singlePredict
Returned ==
    IF pc = "done" THEN [answer |-> answer, candidates |-> candidates]
    ELSE [status |-> status, batch |-> batch]

InitPure ==
    \/ InitBatch /\ ~args.food_context /\ ~args.match_encoder_decoder_input
    \/ InitRank

CreateBatchAgain ==
    /\ status # "input"
    /\ previous = None
    /\ previous' = Returned
    /\ LET e == BatchError(samples) IN
         /\ status' = e
         /\ batch' = IF e = "ok" THEN BuildBatch(samples) ELSE NoBatch
    /\ UNCHANGED <<args, samples>>
    /\ UNCHANGED <<beamVars, vocabVars, strVars, textVars, askVars, runVars>>

PredictAgain ==
    /\ pc = "done"
    /\ previous = None
    /\ previous' = Returned
    /\ LET d == Decode IN
         /\ lastTokenIndex' = d.lastTokenIndex
         /\ paths' = d.paths
         /\ log_probs' = d.log_probs
         /\ startStep' = d.startStep
         /\ candidates' = d.candidates
         /\ reply_score_map' = d.reply_score_map
         /\ best_score' = d.best_score
         /\ answer' = d.answer
         /\ sorted_replies' = d.sorted_replies
    /\ UNCHANGED <<symbol, path, probs, pc>>
    /\ UNCHANGED <<batchVars, vocabVars, strVars, textVars, askVars, runVars>>

\* a behaviour calls the batch builder (pc is "idle") or the decoder
NextPure ==
    \/ pc = "idle" /\ (AddSample \/ CreateBatch \/ CreateBatchAgain)
    \/ pc # "idle" /\ (ModelStepRank \/ Predict \/ PredictAgain)

SpecPure == InitPure /\ [][NextPure]_vars

----------------------------------------------------------------------------
(* The callers of singlePredict: the interactive loop, the test-set driver
   and daemonPredict.  A sentence is the sequence of its pieces, words and
   whitespace; the empty sequence is the empty string *)

MaxLines == 2

Whitespace == {" ", "\n"}

\* nltk.word_tokenize(sentence)
word_tokenize(s) == SelectSeq(s, LAMBDA p : p \notin Whitespace)

\* args.maxLength, which maxLengthEnco is set to
maxLength == args.maxLengthEnco

\* sentence2enco(sentence) without food context: None, or the batch of the
\* one sample [wordIds, []]
sentence2enco(s) ==
    IF s = <<>> THEN None
    ELSE LET tokens == word_tokenize(s) IN
         IF Len(tokens) > maxLength THEN None
         ELSE LET wordIds == WordIds(word2id, id2word, tokens, FALSE).ids
              IN  BuildBatch(<<<<wordIds, <<>>>>>>)

\* a sentence of more than maxLength words
TooLong == [i \in 1..(2 * maxLength + 1) |-> IF i % 2 = 1 THEN "good" ELSE " "]

\* the sentences a user types or a test file holds
Questions ==
    {<<>>, <<" ">>, <<"good">>, <<"Good", " ", "soup">>, TooLong}

\* line[:-1]
Front(s) == SubSeq(s, 1, Len(s) - 1)

\* sequence2str(r, clean=True) of what singlePredict returned: None, or the
\* tuple (answer, candidates), whose first element is a list and no key of
\* id2word
RenderReturned(r) ==
    IF r = None THEN [status |-> "ok", value |-> ""]
    ELSE [status |-> "TypeError", value |-> None]

InitAsk ==
    /\ args \in {c \in RankConfigs : c.lambda_wt = 1 /\ c.gamma_wt = 1}
    /\ samples = <<>>
    /\ status = "input"
    /\ batch = NoBatch
    /\ BeamIdle
    /\ VocabLoaded
    /\ StrIdle
    /\ TextIdle /\ CallIdle /\ RunIdle
    /\ driver \in {"interactive", "testset", "daemon"}
    /\ \E n \in 1..MaxLines : \E qs \in [1..n -> Questions \ {<<>>}] :
          inputs = IF driver = "testset"
                  THEN [i \in 1..n |-> qs[i] \o <<"\n">>]
                  ELSE IF driver = "interactive"
                  THEN [i \in 1..n |-> IF i = n THEN <<>> ELSE qs[i]]
                  ELSE <<qs[1]>>
    /\ question = <<>>
    /\ nbIgnored = 0
    /\ written = <<>>
    /\ daemonAnswer = None
    /\ askPc = "loop"

\* the caller reads its next input and calls singlePredict, which calls
\* sentence2enco; without a batch singlePredict returns None, which the
\* loops unpack and daemonPredict renders
Ask ==
    /\ askPc = "loop"
    /\ inputs # <<>>
    /\ LET q == IF driver = "testset" THEN Front(Head(inputs)) ELSE Head(inputs)
           quit == driver = "interactive" /\ (q = <<>> \/ q = <<"exit">>)
           b == sentence2enco(q)
       IN  /\ question' = q
           /\ batch' = IF quit THEN batch ELSE b
           /\ pc' = IF ~quit /\ b # None THEN "model" ELSE pc
           /\ askPc' = IF quit THEN "finished"
                       ELSE IF b # None THEN "predict"
                       ELSE IF driver = "daemon"
                       THEN IF RenderReturned(None).status = "ok"
                            THEN "finished" ELSE RenderReturned(None).status
                       ELSE "TypeError"
           /\ daemonAnswer' = IF ~quit /\ b = None /\ driver = "daemon"
                       THEN RenderReturned(None).value ELSE daemonAnswer
           /\ IF ~quit /\ b # None
              THEN /\ symbol' = <<>> /\ path' = <<>> /\ probs' = <<>>
                   /\ lastTokenIndex' = <<>> /\ paths' = <<>>
                   /\ log_probs' = <<>> /\ candidates' = <<>>
                   /\ startStep' = <<>> /\ reply_score_map' = <<>>
                   /\ best_score' = None /\ answer' = <<>>
                   /\ sorted_replies' = <<>>
              ELSE UNCHANGED <<symbol, path, probs, lastTokenIndex, paths,
                               log_probs, candidates, startStep,
                               reply_score_map, best_score, answer,
                               sorted_replies>>
    /\ UNCHANGED <<args, samples, status>>
    /\ UNCHANGED <<driver, inputs, nbIgnored, written>>
    /\ UNCHANGED <<vocabVars, strVars, textVars, callVars, runVars>>

\* singlePredict returned "answer, candidates" to its caller
Answered ==
    /\ askPc = "predict"
    /\ pc = "done"
    /\ LET r == RenderReturned(<<answer, candidates>>) IN
       IF driver = "daemon"
       THEN /\ askPc' = IF r.status = "ok" THEN "finished" ELSE r.status
            /\ daemonAnswer' = r.value
            /\ UNCHANGED <<inputs, nbIgnored, written>>
       ELSE /\ askPc' = "loop"
            /\ inputs' = Tail(inputs)
            /\ nbIgnored' = IF answer = <<>> /\ driver = "testset"
                            THEN nbIgnored + 1 ELSE nbIgnored
            /\ written' = IF answer = <<>> THEN written
                          ELSE Append(written, sequence2str(answer, TRUE, FALSE))
            /\ UNCHANGED daemonAnswer
    /\ pc' = "idle"
    /\ UNCHANGED <<symbol, path, probs, lastTokenIndex, paths, log_probs,
                   candidates, startStep, reply_score_map, best_score, answer,
                   sorted_replies>>
    /\ UNCHANGED <<driver, question>>
    /\ UNCHANGED <<batchVars, vocabVars, strVars, textVars, callVars, runVars>>

\* the loop of predictTestset has read every line
Finish ==
    /\ askPc = "loop"
    /\ inputs = <<>>
    /\ askPc' = "finished"
    /\ UNCHANGED <<driver, inputs, question, nbIgnored, written, daemonAnswer>>
    /\ UNCHANGED <<batchVars, beamVars, vocabVars, strVars, textVars,
                   callVars, runVars>>

NextAsk == Ask \/ ModelStepRank \/ Predict \/ Answered \/ Finish

SpecAsk == InitAsk /\ [][NextAsk]_vars

----------------------------------------------------------------------------
(* The batches of an epoch: getBatches shuffles the training samples and
   cuts them into mini-batches *)

MaxSamples == 3

\* samples as createCorpus keeps them: a source and a target, neither empty
\* nor longer than args.maxLength; the source tells them apart
TrainSamples ==
    {<<s, t>> : s \in {x \in SrcSeqs : Len(x) \in 1..MaxLength},
                t \in {x \in TgtSeqs : Len(x) = 1}}

\* --batchSize
TrainConfigs ==
    {[batchSize |-> b] @@ c :
        b \in 1..MaxBatch,
        c \in {d \in Configs : ~d.test /\ ~d.food_context /\ ~d.first_step
                                /\ ~d.withFoods
                                /\ ~d.match_encoder_decoder_input}}

\* the orders random.shuffle can leave a list of n elements in
Orders(n) == {p \in [1..n -> 1..n] : \A i, j \in 1..n : p[i] = p[j] => i = j}

\* range(0, self.getSampleSize(), self.args.batchSize)
Starts(n, b) == {i \in 0..(n - 1) : i % b = 0}

\* mutant: the slice of the last start is cut one sample short
genNextSamples_ShortLast(ts, i, b) ==
    SubSeq(ts, i + 1, IF i + b < Len(ts) THEN i + b ELSE Len(ts) - 1)

\* self.trainingSamples[i:min(i + self.args.batchSize, self.getSampleSize())]
genNextSamples(ts, i, b) ==
    SubSeq(ts, i + 1, IF i + b < Len(ts) THEN i + b ELSE Len(ts))

\* the lists of samples genNextSamples yields, in order
SampleLists(ts, b) ==
    [k \in 1..Cardinality(Starts(Len(ts), b)) |->
        genNextSamples(ts, (k - 1) * b, b)]

InitBatches ==
    /\ args \in TrainConfigs
    /\ samples = <<>>
    /\ status = "input"
    /\ batch = NoBatch
    /\ BeamIdle
    /\ VocabLoaded
    /\ StrIdle
    /\ reserved = LoadedReserved
    /\ data = None
    /\ \E n \in 0..MaxSamples : trainingSamples \in [1..n -> TrainSamples]
    /\ corpusPc = "idle"
    /\ batches = <<>>
    /\ CallIdle /\ AskIdle /\ RunIdle

\* getBatches: shuffle, then one _createBatch per list of samples
GetBatches ==
    /\ status = "input"
    /\ "batchSize" \in DOMAIN args
    /\ \E p \in Orders(Len(trainingSamples)) :
         LET shuffled == [i \in 1..Len(trainingSamples) |->
                             trainingSamples[p[i]]]
             lists == SampleLists(shuffled, args.batchSize)
             bad == {k \in 1..Len(lists) : BatchError(lists[k]) # "ok"}
         IN  /\ trainingSamples' = shuffled
             /\ status' = IF bad = {} THEN "ok"
                          ELSE BatchError(lists[Min(bad)])
             /\ batches' = IF bad = {}
                           THEN [k \in 1..Len(lists) |-> BuildBatch(lists[k])]
                           ELSE batches
    /\ UNCHANGED <<args, samples, batch>>
    /\ UNCHANGED <<reserved, data, corpusPc>>
    /\ UNCHANGED <<beamVars, vocabVars, strVars, callVars, askVars, runVars>>

\* the next epoch
NextEpoch ==
    /\ status = "ok"
    /\ "batchSize" \in DOMAIN args
    /\ status' = "input"
    /\ UNCHANGED <<args, samples, batch>>
    /\ UNCHANGED <<textVars, beamVars, vocabVars, strVars, callVars, askVars, runVars>>

NextBatches == GetBatches \/ NextEpoch

SpecBatches == InitBatches /\ [][NextBatches]_vars

----------------------------------------------------------------------------
(* The model directory and the training loop: managePreviousModel,
   mainTrain, _saveSession *)

MaxGlobStep == 1
MaxEpochs == 2
MaxSaveEvery == 2

MODEL_NAME_BASE == "model"
MODEL_EXT == ".ckpt"
CONFIG_FILENAME == "params.ini"

\* str(n) of a natural number; a file name is the sequence of the strings
\* it is concatenated from
RECURSIVE str(_)
str(n) ==
    IF n < 10 THEN <<"0", "1", "2", "3", "4", "5", "6", "7", "8", "9">>[n + 1]
    ELSE str(n \div 10) \o str(n % 10)

\* f.endswith(ext)
endswith(f, ext) == f # <<>> /\ f[Len(f)] = ext

_getModelName(a, step) ==
    <<MODEL_NAME_BASE>>
        \o (IF a.keepAll THEN <<"-", str(step)>> ELSE <<>>)
        \o <<MODEL_EXT>>

\* mutant: every file of the directory counts as a model file
_getModelList_AnyFile(dir) == dir

_getModelList(dir) == {f \in dir : endswith(f, MODEL_EXT)}

\* the files the program writes into modelDir: the model files, the
\* summary writer's event file and the configuration file
Files ==
    {_getModelName([keepAll |-> k], g) : k \in BOOLEAN, g \in 0..MaxGlobStep}
        \cup {<<"events.out.tfevents">>, <<CONFIG_FILENAME>>}

\* --reset, --keepAll, --numEpochs, --saveEvery
RunConfigs ==
    {[reset |-> r, keepAll |-> k, numEpochs |-> e, saveEvery |-> s] @@ c :
        r \in BOOLEAN, k \in BOOLEAN, e \in 0..MaxEpochs,
        s \in 0..MaxSaveEvery,
        c \in {d \in TrainConfigs : ~d.watsonMode}}

\* everything outside the model directory and the training loop is as
\* constructed
RunBase ==
    /\ samples = <<>>
    /\ status = "input"
    /\ batch = NoBatch
    /\ BeamIdle
    /\ VocabLoaded
    /\ StrIdle
    /\ reserved = LoadedReserved
    /\ data = None
    /\ corpusPc = "idle"
    /\ batches = <<>>
    /\ CallIdle /\ AskIdle

InitModelDir ==
    /\ args \in {c \in RunConfigs : /\ c.numEpochs = 1 /\ c.saveEvery = 1
                                     /\ c.batchSize = 1}
    /\ RunBase
    /\ trainingSamples = <<>>
    /\ modelDir \in SUBSET Files
    /\ restored = {}
    /\ dirPc = "start"
    /\ globStep \in 0..MaxGlobStep
    /\ firstStep = 0 /\ processed = 0
    /\ saves = <<>> /\ interrupted = "none"
    /\ epoch = 0 /\ todo = 0 /\ trainPc = "idle"

ManagePreviousModel ==
    /\ dirPc = "start"
    /\ LET modelName == _getModelName(args, globStep)
           case == IF modelDir = {} THEN "clean"
                   ELSE IF args.reset THEN "reset"
                   ELSE IF modelName \in modelDir THEN "restore"
                   ELSE IF _getModelList(modelDir) # {} THEN "conflict"
                   ELSE "cleaning"
       IN  /\ restored' = IF case = "restore" THEN {modelName} ELSE restored
           /\ dirPc' = IF case = "conflict" THEN "RuntimeError" ELSE "done"
           /\ args' = IF case = "cleaning" THEN [args EXCEPT !.reset = TRUE]
                      ELSE args
           /\ modelDir' = IF case \in {"reset", "cleaning"} THEN {}
                          ELSE modelDir
    /\ UNCHANGED <<samples, status, batch>>
    /\ UNCHANGED <<globStep, firstStep, processed, saves, interrupted,
                   epoch, todo, trainPc>>
    /\ UNCHANGED <<beamVars, vocabVars, strVars, textVars, callVars, askVars>>

NextModelDir == ManagePreviousModel

SpecModelDir == InitModelDir /\ [][NextModelDir]_vars

\* mutant: the checkpoint test passes at every step
Checkpoint_EveryStep(step, a) == TRUE

\* self.globStep % self.args.saveEvery == 0
Checkpoint(step, a) == step % a.saveEvery = 0

\* the state mainTrain is entered in: the directory is clean and globStep
\* is 0, or a model saved at globStep has been restored
InitTrain ==
    /\ args \in {c \in RunConfigs : ~c.reset}
    /\ RunBase
    /\ \E n \in 0..MaxSamples :
         trainingSamples \in [1..n -> {s \in TrainSamples : Len(s[1]) = 1}]
    /\ globStep \in 0..MaxGlobStep
    /\ firstStep = globStep
    /\ modelDir = IF globStep = 0 THEN {}
                  ELSE {<<CONFIG_FILENAME>>, _getModelName(args, globStep)}
    /\ restored = modelDir \ {<<CONFIG_FILENAME>>}
    /\ dirPc = "done"
    /\ processed = 0
    /\ saves = <<>> /\ interrupted = "none"
    /\ epoch = 0 /\ todo = 0 /\ trainPc = "epoch"

\* what the training loop leaves alone
TrainFrame ==
    /\ UNCHANGED <<args, samples, status, batch>>
    /\ UNCHANGED <<reserved, data, corpusPc>>
    /\ UNCHANGED <<restored, dirPc, firstStep>>
    /\ UNCHANGED <<beamVars, vocabVars, strVars, callVars, askVars>>

\* the top of the epoch loop: the batches of the next epoch
StartEpoch ==
    /\ trainPc = "epoch"
    /\ epoch < args.numEpochs
    /\ \E p \in Orders(Len(trainingSamples)) :
         LET shuffled == [i \in 1..Len(trainingSamples) |->
                             trainingSamples[p[i]]]
             lists == SampleLists(shuffled, args.batchSize)
         IN  /\ trainingSamples' = shuffled
             /\ batches' = [k \in 1..Len(lists) |-> BuildBatch(lists[k])]
             /\ todo' = Len(lists)
             /\ epoch' = IF Len(lists) = 0 THEN epoch + 1 ELSE epoch
             /\ trainPc' = IF Len(lists) = 0 THEN "epoch" ELSE "batch"
    /\ UNCHANGED <<modelDir, globStep, processed, saves, interrupted>>
    /\ TrainFrame

\* the training pass on the next batch and the increment of globStep
TrainStep ==
    /\ trainPc = "batch"
    /\ globStep' = globStep + 1
    /\ processed' = processed + 1
    /\ trainPc' = "check"
    /\ UNCHANGED <<modelDir, saves, interrupted, epoch, todo>>
    /\ UNCHANGED <<trainingSamples, batches>>
    /\ TrainFrame

\* the end of the loop body: the next batch, or the next epoch
NextBatchOrEpoch ==
    /\ todo' = todo - 1
    /\ epoch' = IF todo = 1 THEN epoch + 1 ELSE epoch
    /\ trainPc' = IF todo = 1 THEN "epoch" ELSE "batch"

\* the checkpoint test; _saveSession begins with saveModelParams
CheckpointTest ==
    /\ trainPc = "check"
    /\ IF args.saveEvery = 0
       THEN /\ trainPc' = "ZeroDivisionError"
            /\ UNCHANGED <<modelDir, epoch, todo>>
       ELSE IF Checkpoint(globStep, args)
       THEN /\ trainPc' = "saving"
            /\ modelDir' = modelDir \cup {<<CONFIG_FILENAME>>}
            /\ UNCHANGED <<epoch, todo>>
       ELSE /\ NextBatchOrEpoch
            /\ UNCHANGED modelDir
    /\ UNCHANGED <<globStep, processed, saves, interrupted>>
    /\ UNCHANGED <<trainingSamples, batches>>
    /\ TrainFrame

\* saver.save of the checkpoint
CheckpointSaved ==
    /\ trainPc = "saving"
    /\ modelDir' = modelDir \cup {_getModelName(args, globStep)}
    /\ saves' = Append(saves, [step |-> globStep, at |-> "checkpoint"])
    /\ NextBatchOrEpoch
    /\ UNCHANGED <<globStep, processed, interrupted>>
    /\ UNCHANGED <<trainingSamples, batches>>
    /\ TrainFrame

\* KeyboardInterrupt or SystemExit: inside the try block it is caught and
\* the final save follows, during the final save it leaves mainTrain
Interrupt ==
    /\ trainPc \in {"epoch", "batch", "check", "saving", "final"}
    /\ interrupted' \in {"KeyboardInterrupt", "SystemExit"}
    /\ trainPc' = IF trainPc = "final" THEN interrupted' ELSE "final"
    /\ UNCHANGED <<modelDir, globStep, processed, saves, epoch, todo>>
    /\ UNCHANGED <<trainingSamples, batches>>
    /\ TrainFrame

\* range(numEpochs) is exhausted
EpochsDone ==
    /\ trainPc = "epoch"
    /\ epoch >= args.numEpochs
    /\ trainPc' = "final"
    /\ UNCHANGED <<modelDir, globStep, processed, saves, interrupted, epoch,
                   todo>>
    /\ UNCHANGED <<trainingSamples, batches>>
    /\ TrainFrame

\* the _saveSession after the try block
FinalSave ==
    /\ trainPc = "final"
    /\ modelDir' = modelDir \cup {<<CONFIG_FILENAME>>,
                                  _getModelName(args, globStep)}
    /\ saves' = Append(saves, [step |-> globStep, at |-> "final"])
    /\ trainPc' = "returned"
    /\ UNCHANGED <<globStep, processed, interrupted, epoch, todo>>
    /\ UNCHANGED <<trainingSamples, batches>>
    /\ TrainFrame

NextTrain ==
    \/ StartEpoch \/ TrainStep \/ CheckpointTest \/ CheckpointSaved
    \/ Interrupt \/ EpochsDone \/ FinalSave

SpecTrain == InitTrain /\ [][NextTrain]_vars

----------------------------------------------------------------------------
(* The program: a batch is built, a vocabulary is built, a sequence is
   rendered, or a decode call reconstructs and scores its candidates *)

Init ==
    \/ InitBatch \/ InitBeam \/ InitRank \/ InitVocab \/ InitStr
    \/ InitCorpus \/ InitAsk \/ InitBatches
    \/ InitModelDir \/ InitTrain

Next ==
    \/ NextBatch \/ NextBeam \/ ModelStepRank \/ NextVocab \/ NextStr
    \/ NextCorpus
    \/ CreateBatchAgain \/ PredictAgain
    \/ Ask \/ Answered \/ Finish
    \/ NextBatches
    \/ NextModelDir
    \/ NextTrain

Spec == Init /\ [][Next]_vars

----------------------------------------------------------------------------
(* Claims about the batch builder (SpecBatch).

   In the formulas, column b of a tensor X at step t (0-based in the claims)
   is X[t + 1][b].  SourceIds(b), TargetIds(b) and ContextVector(b) are the
   first, second and third element of sample b as the loop body unpacks it
   (the list the statements after line 164 read), which is the sample itself
   unless the Watson-mode reversal applies. *)

Swap == ~args.test /\ args.watsonMode

Cols == 1..Len(samples)

SourceIds(b) == Unpack(samples[b])[1]
TargetIds(b) == Unpack(samples[b])[2]
ContextVector(b) == Unpack(samples[b])[3]

\* the length invariant of sample b, and the context vector a config with
\* food_context reads
WithinLimits(b) ==
    /\ Len(SourceIds(b)) <= args.maxLengthEnco
    /\ Len(TargetIds(b)) + 2 <= args.maxLengthDeco
    /\ args.food_context => Len(samples[b]) = 3

HasShape(tensor, rows) ==
    /\ Len(tensor) = rows
    /\ \A t \in 1..rows : Len(tensor[t]) = Len(samples)

RECURSIVE SumSeq(_)
SumSeq(q) == IF q = <<>> THEN 0 ELSE Head(q) + SumSeq(Tail(q))

\* C1: for every list of samples within the length limits (any size, any
\* flags) _createBatch returns a batch, and every batch it returns has
\* maxLengthEnco encoder rows and maxLengthDeco decoder, target, weight and
\* context rows, each row with one entry per sample.
C1_BatchShape ==
    /\ (status # "input" /\ \A b \in Cols : WithinLimits(b)) => status = "ok"
    /\ status = "ok" =>
         /\ HasShape(batch.encoderSeqs, args.maxLengthEnco)
         /\ HasShape(batch.decoderSeqs, args.maxLengthDeco)
         /\ HasShape(batch.targetSeqs, args.maxLengthDeco)
         /\ HasShape(batch.weights, args.maxLengthDeco)
         /\ HasShape(batch.contextSeqs, args.maxLengthDeco)

C1_Witness ==
    /\ status = "ok"
    /\ Len(samples) = 2
    /\ samples[1] # samples[2]
    /\ Len(batch.encoderSeqs) < Len(batch.decoderSeqs)
    /\ Len(batch.weights[1]) = 2

\* C2: without Watson swap, the encoder column of a sample with n source ids
\* is maxLengthEnco - n pad ids followed by the source ids in reverse order;
\* dropping the pads and reversing gives the source ids back.
C2_EncoderReversedLeftPadded ==
    (status = "ok" /\ ~Swap) =>
        \A b \in Cols :
            LET src == samples[b][1]
                n == Len(src)
                m == args.maxLengthEnco
            IN  /\ n <= m
                /\ \A t \in 0..(m - 1) :
                       batch.encoderSeqs[t + 1][b] =
                           IF t < m - n THEN padToken ELSE src[m - t]
                /\ Reverse([i \in 1..n |-> batch.encoderSeqs[m - n + i][b]]) = src

C2_Witness ==
    /\ status = "ok" /\ ~Swap
    /\ Len(samples) = 2
    /\ samples[1][1] = <<4>>
    /\ samples[2][1] = <<4, 5>>
    /\ batch.encoderSeqs[1][1] = padToken
    /\ batch.encoderSeqs[args.maxLengthEnco - 1][2] = 5
    /\ batch.encoderSeqs[args.maxLengthEnco][2] = 4

\* C3: the decoder column of a sample is [go] + targetIds + [eos], or
\* [go] + sourceIds + [eos] (unreversed) under match_encoder_decoder_input,
\* followed by pad ids up to maxLengthDeco.
C3_DecoderColumn ==
    status = "ok" =>
        \A b \in Cols :
            LET x == IF args.match_encoder_decoder_input
                     THEN SourceIds(b) ELSE TargetIds(b)
                n == Len(x)
            IN  /\ n + 2 <= args.maxLengthDeco
                /\ \A t \in 0..(args.maxLengthDeco - 1) :
                       batch.decoderSeqs[t + 1][b] =
                           IF t = 0 THEN goToken
                           ELSE IF t <= n THEN x[t]
                           ELSE IF t = n + 1 THEN eosToken
                           ELSE padToken

C3_Witness ==
    /\ status = "ok"
    /\ Len(samples) = 2
    /\ args.match_encoder_decoder_input
    /\ samples[1] = <<(<<4, 5>>), (<<5>>)>>
    /\ ~Swap
    /\ [t \in 1..4 |-> batch.decoderSeqs[t][1]] = <<goToken, 4, 5, eosToken>>
    /\ batch.decoderSeqs[args.maxLengthDeco][2] = padToken

\* C4 as stated: in every config, match_encoder_decoder_input included, the
\* target column is the decoder column with its go token removed:
\* targetSeqs[t][b] = decoderSeqs[t+1][b] for every t below the unpadded
\* decoder length minus one.
C4_TargetIsShiftedDecoder ==
    status = "ok" =>
        \A b \in Cols :
            LET n == Len(IF args.match_encoder_decoder_input
                         THEN SourceIds(b) ELSE TargetIds(b)) + 2
            IN  \A t \in 0..(n - 2) :
                    batch.targetSeqs[t + 1][b] = batch.decoderSeqs[t + 2][b]

\* C4 amended: the target column is targetIds + [eos] in every config (cut at
\* maxLengthDeco), and it is the decoder column with its go token removed
\* when match_encoder_decoder_input is off.
C4_TargetColumn ==
    status = "ok" =>
        \A b \in Cols :
            LET tg == TargetIds(b) IN
            /\ \A t \in 0..(args.maxLengthDeco - 1) :
                   t <= Len(tg) =>
                       batch.targetSeqs[t + 1][b] =
                           IF t < Len(tg) THEN tg[t + 1] ELSE eosToken
            /\ ~args.match_encoder_decoder_input =>
                   \A t \in 0..(args.maxLengthDeco - 2) :
                       batch.targetSeqs[t + 1][b] = batch.decoderSeqs[t + 2][b]

C4_Witness ==
    /\ status = "ok"
    /\ Len(samples) = 1
    /\ args.match_encoder_decoder_input
    /\ SourceIds(1) = <<4, 5>>
    /\ TargetIds(1) = <<5>>
    /\ batch.targetSeqs[1][1] = 5
    /\ batch.decoderSeqs[2][1] = 4
    /\ batch.targetSeqs[2][1] = eosToken

\* C5: for a sample within the length limits and L = len(targetIds) + 1, the
\* weight column is 1 at the steps t < L and 0 at the steps L <= t <
\* maxLengthDeco; it sums to L and its last 1 is at the step of the end token
\* of the target column.
C5_WeightMask ==
    status = "ok" =>
        \A b \in Cols :
            WithinLimits(b) =>
                LET L == Len(TargetIds(b)) + 1
                    w == [t \in 1..args.maxLengthDeco |-> batch.weights[t][b]]
                IN  /\ \A t \in 0..(args.maxLengthDeco - 1) :
                           w[t + 1] = IF t < L THEN 1 ELSE 0
                    /\ SumSeq(w) = L
                    /\ batch.targetSeqs[L][b] = eosToken
                    /\ w[L] = 1 /\ w[L + 1] = 0

C5_Witness ==
    /\ status = "ok"
    /\ Len(samples) = 2
    /\ WithinLimits(1) /\ WithinLimits(2)
    /\ Len(TargetIds(1)) = 0
    /\ Len(TargetIds(2)) = 2
    /\ batch.weights[1][1] = 1 /\ batch.weights[2][1] = 0
    /\ batch.weights[3][2] = 1 /\ batch.weights[4][2] = 0

\* C6 as stated: under Watson mode outside inference every sample, with or
\* without a context vector, has source and target swapped: the encoder
\* column is built from reverse(target), decoder and target columns from the
\* source, and the context vector stays the context; otherwise nothing is
\* swapped.
C6_WatsonSwapsSourceAndTarget ==
    status = "ok" =>
        \A b \in Cols :
            LET src == IF Swap THEN samples[b][2] ELSE samples[b][1]
                tgt == IF Swap THEN samples[b][1] ELSE samples[b][2]
                m == args.maxLengthEnco
            IN  /\ Len(src) <= m
                /\ \A t \in 0..(m - 1) :
                       batch.encoderSeqs[t + 1][b] =
                           IF t < m - Len(src) THEN padToken ELSE src[m - t]
                /\ \A t \in 0..(args.maxLengthDeco - 1) :
                       t <= Len(tgt) =>
                           batch.targetSeqs[t + 1][b] =
                               IF t < Len(tgt) THEN tgt[t + 1] ELSE eosToken
                /\ args.food_context =>
                       batch.contextSeqs[1][b] = samples[b][3]

\* C7: with food_context and without first_step every step of the context
\* column holds the sample's context vector; with both, step 0 holds it and
\* every later step the zero vector; without food_context every step holds
\* the zero vector, whatever first_step is.
C7_ContextColumn ==
    status = "ok" =>
        \A b \in Cols : \A t \in 0..(args.maxLengthDeco - 1) :
            batch.contextSeqs[t + 1][b] =
                IF ~args.food_context THEN ZeroVec
                ELSE IF args.first_step /\ t >= 1 THEN ZeroVec
                ELSE ContextVector(b)

C7_Witness ==
    /\ status = "ok"
    /\ args.food_context /\ args.first_step
    /\ Len(samples) = 2
    /\ ContextVector(1) # ContextVector(2)
    /\ batch.contextSeqs[1][2] = ContextVector(2)
    /\ batch.contextSeqs[1][2] # ZeroVec
    /\ batch.contextSeqs[2][2] = ZeroVec

\* C8 as stated: in every config _createBatch raises the assertion error and
\* returns no batch whenever a sample has more than maxLengthEnco source ids
\* or more than maxLengthDeco - 2 target ids.
C8_OverlongSampleIsRejected ==
    (status # "input" /\
     \E b \in Cols : \/ Len(SourceIds(b)) > args.maxLengthEnco
                     \/ Len(TargetIds(b)) + 2 > args.maxLengthDeco)
        => (status # "ok" /\ batch = NoBatch)

----------------------------------------------------------------------------
(* Claims about the beam traceback (SpecBeam) *)

\* the first step of slot k that holds the end token, T-1 when none does
TermStep(k) ==
    LET hits == {i \in 0..(NumSteps - 1) : symbol[i][k] = eosToken} IN
    IF hits = {} THEN NumSteps - 1 ELSE Min(hits)

\* the slot a walk that starts in slot k at step s reads at step i <= s
RECURSIVE CursorAt(_, _, _)
CursorAt(k, s, i) == IF i = s THEN k ELSE path[i + 1][CursorAt(k, s, i + 1)]

\* the log-probabilities of that walk at the steps 0..i
RECURSIVE WalkLogProb(_, _, _)
WalkLogProb(k, s, i) ==
    IF i < 0 THEN 0
    ELSE probs[i][CursorAt(k, s, i)] + WalkLogProb(k, s, i - 1)

\* C9: the step at which the traceback starts the walk of slot k is the
\* first step in 0..T-1 whose symbol in slot k is the end token, and T-1
\* when the slot holds none (also when the first end token is at step T-1).
C9_TerminationStep ==
    pc = "done" => \A k \in Slots : startStep[k] = TermStep(k)

C9_Witness ==
    /\ pc = "done"
    /\ NumSteps = 3
    /\ symbol[0][0] # eosToken /\ symbol[1][0] = eosToken /\ symbol[2][0] = eosToken
    /\ symbol[0][1] # eosToken /\ symbol[1][1] # eosToken /\ symbol[2][1] = eosToken
    /\ startStep[0] = 1
    /\ startStep[1] = 2
    /\ lastTokenIndex[1] = 3

\* C10: the candidate of slot k with termination step s has s+1 tokens; its
\* token at position i is symbol[i][c_i] with c_s = k and c_(i-1) =
\* path[i][c_i], and its log-probability is the sum of probs[i][c_i] over
\* the steps 0..s and nothing else.
C10_BackwardWalk ==
    pc = "done" =>
        \A k \in Slots :
            LET s == TermStep(k)
                c == candidates[k + 1]
            IN  /\ Len(c) = s + 1
                /\ \A i \in 0..s : c[i + 1] = symbol[i][CursorAt(k, s, i)]
                /\ log_probs[k] = WalkLogProb(k, s, s)

C10_Witness ==
    /\ pc = "done"
    /\ NumSteps = 3
    /\ TermStep(0) = 1 /\ TermStep(1) = 2
    /\ path[1][0] = 1 /\ path[2][1] = 0 /\ path[1][1] = 0
    /\ Len(candidates[1]) = 2 /\ Len(candidates[2]) = 3
    /\ candidates[1] = <<symbol[0][1], eosToken>>
    /\ candidates[2] = <<symbol[0][1], symbol[1][0], symbol[2][1]>>
    /\ log_probs[0] = probs[0][1] + probs[1][0]
    /\ log_probs[1] = probs[0][1] + probs[1][0] + probs[2][1]

\* the reconstruction of beam slot k: the tokens of its backward walk, from
\* step 0 to its termination step
Walk(k) ==
    [n \in 1..(TermStep(k) + 1) |-> symbol[n - 1][CursorAt(k, TermStep(k), n - 1)]]

\* the cleaned rendering of the candidate of slot k
Reply(k) == sequence2str(candidates[k + 1], TRUE, FALSE)

\* C11: the list of candidates has exactly one entry per beam slot, K in
\* all, and its entry at position j (0 first) is the reconstruction of beam
\* slot j, whatever the model emitted (also when two slots reconstruct the
\* same sequence).
C11_OneCandidatePerSlot ==
    pc = "done" =>
        /\ Len(candidates) = BeamSize
        /\ \A j \in Slots : candidates[j + 1] = Walk(j)

C11_Witness ==
    /\ pc = "done"
    /\ NumSteps = 2
    /\ path[1][0] = 0 /\ path[1][1] = 0
    /\ symbol[0][0] # eosToken
    /\ symbol[1][0] = eosToken /\ symbol[1][1] = eosToken
    /\ Len(candidates) = BeamSize
    /\ candidates[1] = <<symbol[0][0], eosToken>>
    /\ candidates[2] = candidates[1]

----------------------------------------------------------------------------
(* Claims about scoring and answer selection (SpecRank) *)

\* the score of beam slot k
SlotScore(k) == Score(paths[k], log_probs[k])

\* the lowest beam slot whose reconstruction renders to the string r
FirstSlot(r) == Min({k \in Slots : Reply(k) = r})

\* the slots that are the first with their rendering
Retained == {k \in Slots : FirstSlot(Reply(k)) = k}

Max(S) == CHOOSE x \in S : \A y \in S : x >= y

\* C12: every rendering has one recorded score, the score of the lowest
\* slot that renders to it; the answer and the best score are those of a
\* slot that is the first with its rendering, the greatest score among such
\* slots, so a later duplicate slot changes neither, whatever its score.
C12_FirstSlotOfDuplicatesIsUsed ==
    pc = "done" =>
        /\ \A k \in Slots : HasKey(reply_score_map, Reply(k))
        /\ \A n, m \in 1..Len(reply_score_map) :
               reply_score_map[n][1] = reply_score_map[m][1] => n = m
        /\ \A n \in 1..Len(reply_score_map) :
               reply_score_map[n][2] = SlotScore(FirstSlot(reply_score_map[n][1]))
        /\ LET kept == Retained IN
             /\ best_score = Max({SlotScore(k) : k \in kept})
             /\ \E k \in kept :
                    answer = candidates[k + 1] /\ best_score = SlotScore(k)

C12_Witness ==
    /\ pc = "done"
    /\ Reply(0) = Reply(1)
    /\ candidates[1] # candidates[2]
    /\ SlotScore(1) > SlotScore(0)
    /\ reply_score_map = <<<<Reply(0), SlotScore(0)>>>>
    /\ best_score = SlotScore(0)
    /\ answer = candidates[1]

\* C13 as stated: the candidate list singlePredict returns, which
\* predictTestset renders entry by entry and persists, holds no two entries
\* that render to the same cleaned string.
C13_CandidateListIsDeduplicated ==
    pc = "done" =>
        \A n, m \in 1..Len(candidates) :
            sequence2str(candidates[n], TRUE, FALSE)
                = sequence2str(candidates[m], TRUE, FALSE) => n = m

\* C15: without MMI the answer is the candidate of slot 0 when no later
\* slot that is the first with its rendering has a greater raw
\* log-probability; in general it is the candidate of the lowest slot among
\* the retained slots whose raw log-probability is the greatest of the
\* retained slots, and the best score is that log-probability.
C15_AnswerWithoutMMI ==
    (pc = "done" /\ ~args.MMI) =>
        LET kept == Retained
            best == Max({log_probs[k] : k \in kept})
            a == Min({k \in kept : log_probs[k] = best})
        IN  /\ answer = candidates[a + 1]
            /\ best_score = log_probs[a]
            /\ (\A k \in kept : log_probs[k] <= log_probs[0])
                   => answer = candidates[1]
            /\ \A k \in kept : k < a => log_probs[k] < log_probs[a]

C15_Witness ==
    /\ pc = "done"
    /\ ~args.MMI
    /\ Reply(0) # Reply(1)
    /\ log_probs[1] > log_probs[0]
    /\ answer = candidates[2]
    /\ answer # candidates[1]
    /\ best_score = log_probs[1]

\* token i (from 1) of the candidate of slot k, and the token before it
TokenAt(k, i) == id2word[candidates[k + 1][i]]

PrevToken(k, i) == IF i = 1 THEN "<start>" ELSE TokenAt(k, i - 1)

\* log P(curr | prev), and 0 when the probability is zero
LogTerm(prev, curr) ==
    IF <<prev, curr>> \in DOMAIN ProbDist THEN ProbDist[<<prev, curr>>] ELSE 0

\* the sum of the terms of the first min(gamma_wt, length) tokens of the
\* candidate of slot k
Penalty(k) ==
    SumSeq([i \in 1..Min({args.gamma_wt, Len(candidates[k + 1])}) |->
               LogTerm(PrevToken(k, i), TokenAt(k, i))])

\* C16: with MMI the score recorded for a rendering is, for the slot k that
\* is the first with that rendering, log_probs[k] - lambda_wt * penalty
\* + gamma_wt * (number of tokens of the candidate of slot k), the penalty
\* being the bigram sum of C17.
C16_MMIScore ==
    (pc = "done" /\ args.MMI) =>
        /\ Len(reply_score_map) = Cardinality(Retained)
        /\ \A n \in 1..Len(reply_score_map) :
               LET k == FirstSlot(reply_score_map[n][1]) IN
               reply_score_map[n][2] =
                   log_probs[k] - args.lambda_wt * Penalty(k)
                       + args.gamma_wt * Len(candidates[k + 1])

C16_Witness ==
    /\ pc = "done"
    /\ args.MMI /\ args.lambda_wt = 2 /\ args.gamma_wt = 2
    /\ candidates[1] = <<4, 5>>
    /\ log_probs[0] = -2
    /\ Penalty(0) = -3
    /\ reply_score_map[1] = <<"good meal", 8>>

\* C17: with MMI the penalty the scoring loop computes for a retained slot
\* is the sum, over the first min(gamma_wt, length) tokens of its candidate,
\* of log P(token | previous token), the token before the first being
\* "<start>"; a bigram of probability zero adds 0 and its token is still the
\* previous token of the next one.
C17_LogLMPenalty ==
    (pc = "done" /\ args.MMI) =>
        \A k \in Retained :
            /\ LogLMPenalty("<start>", Prefix(candidates[k + 1], args.gamma_wt))
                   = Penalty(k)
            /\ \E n \in 1..Len(reply_score_map) :
                   /\ reply_score_map[n][1] = Reply(k)
                   /\ log_probs[k] + args.gamma_wt * Len(candidates[k + 1])
                          - reply_score_map[n][2]
                        = args.lambda_wt * Penalty(k)

C17_Witness ==
    /\ pc = "done"
    /\ args.MMI /\ args.lambda_wt = 1 /\ args.gamma_wt = 2
    /\ candidates[2] = <<5, 4>>
    /\ 1 \in Retained
    /\ ~BigramSeen("<start>", "meal")
    /\ ProbDist[<<"meal", "good">>] = -3
    /\ ProbDist[<<"<start>", "good">>] = -1
    /\ Penalty(1) = -3
    /\ reply_score_map[2] = <<"meal good", log_probs[1] + 3 + 4>>

\* the position in the ranking of item n of reply_score_map: behind the
\* items with a greater score and the earlier items with the same score
RankOf(n) ==
    1 + Cardinality({m \in 1..Len(reply_score_map) :
                        \/ reply_score_map[m][2] > reply_score_map[n][2]
                        \/ /\ reply_score_map[m][2] = reply_score_map[n][2]
                           /\ m < n})

\* C18: with MMI the retained renderings, recorded in beam order, are
\* ranked by adjusted score, greatest first, equal scores in beam order;
\* the answer is the candidate of the first entry of the ranking and the
\* best score is its score, whatever the raw log-probabilities are.
C18_MMIRanking ==
    (pc = "done" /\ args.MMI) =>
        /\ \A n, m \in 1..Len(reply_score_map) :
               n < m => FirstSlot(reply_score_map[n][1])
                            < FirstSlot(reply_score_map[m][1])
        /\ Len(sorted_replies) = Len(reply_score_map)
        /\ \A n \in 1..Len(reply_score_map) :
               sorted_replies[RankOf(n)] = reply_score_map[n]
        /\ answer = candidates[FirstSlot(sorted_replies[1][1]) + 1]
        /\ sequence2str(answer, TRUE, FALSE) = sorted_replies[1][1]
        /\ best_score = sorted_replies[1][2]

C18_Witness ==
    /\ pc = "done"
    /\ args.MMI /\ args.lambda_wt = 1 /\ args.gamma_wt = 2
    /\ candidates = << <<4, eosToken>>, <<5, 4>> >>
    /\ log_probs[0] = -2 /\ log_probs[1] = -3
    /\ reply_score_map = << <<"good", 3>>, <<"meal good", 4>> >>
    /\ sorted_replies = << <<"meal good", 4>>, <<"good", 3>> >>
    /\ answer = <<5, 4>>
    /\ best_score = 4

----------------------------------------------------------------------------
(* Claims about sequence2str (SpecStr) *)

\* the position of the first end-token id of s, Len(s) + 1 when it has none
FirstEos(s) == Min({i \in 1..Len(s) : s[i] = eosToken} \cup {Len(s) + 1})

\* the ids of s before its first end-token id that are neither pad nor start
Rendered(s) ==
    SelectSeq(SubSeq(s, 1, FirstEos(s) - 1),
              LAMBDA x : x # padToken /\ x # goToken)

\* C14: with clean=True the sentence is the tokens, separated by one space,
\* of the ids before the first end-token id that are neither pad nor start,
\* in the order of the sequence (in the opposite order with reverse=True);
\* nothing at or after the first end-token id is rendered, and the empty
\* sequence renders to the empty string.
C14_CleanRendering ==
    pc = "returned" =>
        /\ sequence = <<>> => sentence = ""
        /\ clean =>
             LET tokens == [i \in 1..Len(Rendered(sequence)) |->
                               id2word[Rendered(sequence)[i]]]
             IN  sentence = Join(IF reverse THEN Reverse(tokens) ELSE tokens)

C14_Witness ==
    /\ pc = "returned"
    /\ clean /\ ~reverse
    /\ sequence = <<5, padToken, 4, eosToken, 5>>
    /\ sentence = "meal good"

----------------------------------------------------------------------------
(* Claims about the vocabulary (SpecVocab).  Every step is one call of
   getWordId: word' and create' are its arguments, wordId' is the id it
   returns, and word2id, id2word are the mappings before the call. *)

\* the mapping f with x mapped to y
With(f, x, y) == [z \in DOMAIN f \cup {x} |-> IF z = x THEN y ELSE f[z]]

\* C19: a call looks up the lower-cased token; when it is registered the
\* call returns its id and changes no mapping; when it is absent and create
\* is true the call returns the size of the table and registers the
\* lower-cased token under that id in both mappings, changing nothing else;
\* when it is absent and create is false the call returns the unknown id
\* and changes no mapping.
C19_GetWordId ==
    [][LET lw == Lower(word') IN
       /\ lw \in DOMAIN word2id =>
              /\ wordId' = word2id[lw]
              /\ word2id' = word2id /\ id2word' = id2word
       /\ (lw \notin DOMAIN word2id /\ create') =>
              /\ wordId' = Size(word2id)
              /\ word2id' = With(word2id, lw, Size(word2id))
              /\ id2word' = With(id2word, Size(word2id), lw)
       /\ (lw \notin DOMAIN word2id /\ ~create') =>
              /\ wordId' = unknownToken
              /\ wordId' = word2id["<unknown>"]
              /\ word2id' = word2id /\ id2word' = id2word]_vars

C19_Witness ==
    /\ word = "MEAL" /\ ~create
    /\ "MEAL" \notin DOMAIN word2id
    /\ added = ReservedWords \o <<"good", "meal">>
    /\ word2id["meal"] = 5
    /\ wordId = 5

\* the mappings are inverse bijections between the registered tokens and
\* the ids 0..n-1, in the order of registration
Bijection ==
    /\ DOMAIN id2word = 0..(Size(word2id) - 1)
    /\ \A w \in DOMAIN word2id :
           word2id[w] \in DOMAIN id2word /\ id2word[word2id[w]] = w
    /\ \A i \in DOMAIN id2word :
           id2word[i] \in DOMAIN word2id /\ word2id[id2word[i]] = i
    /\ Len(added) = Size(word2id)
    /\ \A i \in DOMAIN id2word : id2word[i] = added[i + 1]

\* no call changes or removes what is registered
Stable ==
    /\ \A w \in DOMAIN word2id :
           w \in DOMAIN word2id' /\ word2id'[w] = word2id[w]
    /\ \A i \in DOMAIN id2word :
           i \in DOMAIN id2word' /\ id2word'[i] = id2word[i]

\* C20: from the empty vocabulary, after every call word2id and id2word are
\* inverse bijections between the n registered tokens and the ids 0..n-1,
\* the ids follow the order of first registration, and a call never
\* changes or removes the id of a registered token.
C20_VocabularyBijection == [](Bijection) /\ [][Stable]_vars

C20_Witness ==
    /\ added = ReservedWords \o <<"rice", "good", "soup">>
    /\ word2id["rice"] = 4 /\ word2id["good"] = 5 /\ word2id["soup"] = 6
    /\ id2word[4] = "rice" /\ id2word[5] = "good" /\ id2word[6] = "soup"
    /\ Size(word2id) = 7
    /\ word = "Rice" /\ create /\ wordId = 4

----------------------------------------------------------------------------
(* Claims about the corpus loader (SpecCorpus) *)

\* loadCorpus returned
Completed == corpusPc \in {"created", "loaded"}

ReservedIds ==
    {reserved.padToken, reserved.goToken, reserved.eosToken,
     reserved.unknownToken}

\* the four reserved ids are the ids the mapping w2i gives the four tokens
ReservedIn(w2i) ==
    /\ {"<pad>", "<go>", "<eos>", "<unknown>"} \subseteq DOMAIN w2i
    /\ w2i["<pad>"] = reserved.padToken
    /\ w2i["<go>"] = reserved.goToken
    /\ w2i["<eos>"] = reserved.eosToken
    /\ w2i["<unknown>"] = reserved.unknownToken

\* C21: when loadCorpus has completed, after creating the dataset or after
\* loading it, the pad id is 0 and the four reserved ids are pairwise
\* distinct ids of the vocabulary; the dataset file holds the mappings of the
\* run that created it, and a run that loads it has the four reserved ids
\* the file's mapping gives and the file's two mappings (every entry of
\* them when fine-tuning follows the load).
C21_ReservedIdsSurviveSaveAndLoad ==
    Completed =>
        /\ reserved.padToken = 0
        /\ Cardinality(ReservedIds) = 4
        /\ ReservedIds \subseteq DOMAIN id2word
        /\ ReservedIn(word2id)
        /\ ReservedIn(data.word2id)
        /\ corpusPc = "created" =>
               data.word2id = word2id /\ data.id2word = id2word
        /\ corpusPc = "loaded" =>
               /\ \A w \in DOMAIN data.word2id :
                      w \in DOMAIN word2id /\ word2id[w] = data.word2id[w]
               /\ \A i \in DOMAIN data.id2word :
                      i \in DOMAIN id2word /\ id2word[i] = data.id2word[i]
        /\ corpusPc = "loaded" /\ ~(args.finetune /\ ~args.test) =>
               word2id = data.word2id /\ id2word = data.id2word

\* a run loaded a dataset whose vocabulary has corpus words and samples
C21_Witness ==
    /\ corpusPc = "loaded"
    /\ ~args.finetune
    /\ Size(word2id) > Len(ReservedWords)
    /\ trainingSamples # <<>>
    /\ reserved = LoadedReserved

\* C22: after the vocabulary was reloaded from the dataset file, the lookups
\* of fine-tuning add no entry: word2id and id2word are the loaded
\* mappings.
C22_ReloadedVocabularyIsFrozen ==
    corpusPc = "loaded" =>
        word2id = data.word2id /\ id2word = data.id2word

----------------------------------------------------------------------------
(* Claims about repeated calls (SpecPure) *)

\* a step that is a call of _createBatch or of singlePredict's traceback and
\* scoring
IsCall ==
    \/ status = "input" /\ status' # "input"
    \/ pc = "model" /\ pc' = "done"
    \/ previous' # previous

\* the arguments of the call and the vocabulary are as before the step
InputsKept ==
    /\ samples' = samples
    /\ symbol' = symbol /\ path' = path /\ probs' = probs
    /\ word2id' = word2id /\ id2word' = id2word

----------------------------------------------------------------------------
(* Claims about the callers of singlePredict (SpecAsk) *)

\* C24: when sentence2enco returns None for an input, the interactive loop
\* and predictTestset raise no error: they skip the input and go on.
C24_NoBatchIsSkipped ==
    driver \in {"interactive", "testset"} => askPc \in {"loop", "predict", "finished"}

\* sentence2enco was called on question and batch is what it returned
Encoded ==
    \/ askPc = "predict"
    \/ askPc = "TypeError" /\ driver # "daemon"
    \/ askPc = "finished" /\ driver = "daemon"

\* the ids of the words of the question, looked up with create=False
QuestionIds == WordIds(word2id, id2word, word_tokenize(question), FALSE).ids

\* C25: sentence2enco returns None for an input without a word (empty or
\* whitespace only) and for an input of more than maxLength words; for any
\* other input it returns a batch of one column whose encoder column holds
\* the ids of the words, reversed and padded on the left.
C25_Sentence2Enco ==
    Encoded =>
        LET ids == QuestionIds IN
        IF ids = <<>> \/ Len(ids) > maxLength THEN batch = None
        ELSE /\ batch # None
             /\ \A t \in 1..maxLength :
                    batch.encoderSeqs[t] =
                        <<(PadEncoder(Reverse(ids)))[t]>>

\* C26: daemonPredict returns the cleaned rendering of the answer that
\* singlePredict computed, and the empty string when there was no batch.
C26_DaemonPredict ==
    driver = "daemon" =>
        /\ askPc \in {"loop", "predict", "finished"}
        /\ askPc = "finished" =>
               daemonAnswer = IF batch = None THEN ""
                       ELSE sequence2str(answer, TRUE, FALSE)

----------------------------------------------------------------------------
(* Claims about the batches of an epoch (SpecBatches) *)

\* the number of samples of a batch
Width(b) == Len(b.encoderSeqs[1])

\* column j of batch b is the sample s: its encoder, decoder and target
\* columns are those _createBatch builds for s alone
IsColumnOf(s, b, j) ==
    LET one == BuildBatch(<<s>>) IN
    /\ \A t \in 1..args.maxLengthEnco :
           b.encoderSeqs[t][j] = one.encoderSeqs[t][1]
    /\ \A t \in 1..args.maxLengthDeco :
           /\ b.decoderSeqs[t][j] = one.decoderSeqs[t][1]
           /\ b.targetSeqs[t][j] = one.targetSeqs[t][1]
           /\ b.weights[t][j] = one.weights[t][1]

\* C29: getBatches leaves the N training samples in some order and returns
\* ceil(N / batchSize) batches, none when N = 0; every batch but the last
\* has batchSize columns, the last has between 1 and batchSize; sample i of
\* the shuffled list is column (i mod batchSize) of batch (i div batchSize)
\* and of no other, so every sample is exactly one column of exactly one
\* batch.
C29_BatchesPartitionSamples ==
    [][status = "input" /\ status' = "ok" /\ "batchSize" \in DOMAIN args =>
        LET N == Len(trainingSamples)
            B == args.batchSize
            NB == Len(batches')
        IN  /\ Len(trainingSamples') = N
            /\ \A x \in TrainSamples :
                   Cardinality({i \in 1..N : trainingSamples'[i] = x})
                       = Cardinality({i \in 1..N : trainingSamples[i] = x})
            /\ NB = (N + B - 1) \div B
            /\ N = 0 => batches' = <<>>
            /\ \A k \in 1..NB :
                   /\ k < NB => Width(batches'[k]) = B
                   /\ Width(batches'[k]) \in 1..B
            /\ SumSeq([k \in 1..NB |-> Width(batches'[k])]) = N
            /\ \A i \in 1..N :
                   IsColumnOf(trainingSamples'[i],
                              batches'[((i - 1) \div B) + 1],
                              ((i - 1) % B) + 1)]_vars

\* an epoch of three samples in batches of two: a full batch and a last
\* batch of one
C29_Witness ==
    /\ "batchSize" \in DOMAIN args
    /\ status = "ok"
    /\ Len(trainingSamples) = 3 /\ args.batchSize = 2
    /\ Len(batches) = 2
    /\ Width(batches[1]) = 2 /\ Width(batches[2]) = 1

----------------------------------------------------------------------------
(* Claims about the model directory (SpecModelDir) *)

\* C27: managePreviousModel on a non-empty directory: with reset every file
\* is removed and nothing is restored; without reset and with the model
\* file present the model is restored and no file is removed; without
\* reset, the model file absent and other model files present a
\* RuntimeError is raised and no file is removed; without reset and with no
\* model file at all every file is removed as in a reset. On an empty
\* directory nothing is removed or restored.
C27_ManagePreviousModel ==
    [][dirPc = "start" /\ dirPc' # "start" =>
        LET modelName == _getModelName(args, globStep)
            models == {f \in modelDir : endswith(f, MODEL_EXT)}
            removed == modelDir' = {} /\ dirPc' = "done"
            kept == modelDir' = modelDir
        IN  /\ modelDir # {} /\ args.reset =>
                removed /\ restored' = {}
            /\ modelDir # {} /\ ~args.reset /\ modelName \in modelDir =>
                kept /\ restored' = {modelName} /\ dirPc' = "done"
            /\ modelDir # {} /\ ~args.reset /\ modelName \notin modelDir
                    /\ models # {} =>
                kept /\ restored' = {} /\ dirPc' = "RuntimeError"
            /\ modelDir # {} /\ ~args.reset /\ models = {} =>
                removed /\ restored' = {} /\ args'.reset
            /\ modelDir = {} =>
                kept /\ restored' = {} /\ dirPc' = "done"]_vars

\* the model was saved without --keepAll and the program is started with
\* it: the model file of the current step is absent, another one is
\* present, and the call has raised with the directory untouched
C27_Witness ==
    /\ dirPc = "RuntimeError"
    /\ args.keepAll /\ ~args.reset
    /\ _getModelName(args, globStep) \notin modelDir
    /\ <<MODEL_NAME_BASE, MODEL_EXT>> \in modelDir
    /\ <<CONFIG_FILENAME>> \in modelDir
    /\ restored = {}

----------------------------------------------------------------------------
(* Claims about the training loop (SpecTrain) *)

\* the steps saved at the given place
SavedAt(place) ==
    {saves[i].step : i \in {j \in DOMAIN saves : saves[j].at = place}}

\* the steps after the first at which globStep became a multiple of
\* saveEvery
CheckpointSteps ==
    {m \in (firstStep + 1)..globStep :
        args.saveEvery # 0 /\ m % args.saveEvery = 0}

\* C28: globStep grows by exactly one per processed batch; the loop saves a
\* checkpoint at a step only when globStep has become a multiple of
\* saveEvery there, once, and at every such step it has left behind; when
\* mainTrain has returned, after all epochs or after a KeyboardInterrupt or
\* SystemExit anywhere in the loop, exactly one final save has been made, it
\* is the last save and it is of the current globStep, so that every step
\* at which globStep became a multiple of saveEvery has been saved.
C28_TrainingSaves ==
    /\ [](trainPc # "idle" =>
            /\ globStep = firstStep + processed
            /\ SavedAt("checkpoint") \subseteq CheckpointSteps
            /\ \A i, j \in DOMAIN saves : saves[i] = saves[j] => i = j
            /\ \A m \in CheckpointSteps :
                   \/ m \in SavedAt("checkpoint")
                   \/ /\ m = globStep
                      /\ \/ trainPc \in {"check", "saving"}
                         \/ interrupted # "none"
            /\ trainPc = "returned" =>
                   /\ saves # <<>>
                   /\ saves[Len(saves)] = [step |-> globStep, at |-> "final"]
                   /\ CheckpointSteps \subseteq
                          SavedAt("checkpoint") \cup SavedAt("final")
                   /\ _getModelName(args, globStep) \in modelDir
            /\ trainPc # "returned" => SavedAt("final") = {})
    /\ [][processed' # processed \/ globStep' # globStep =>
            globStep' = globStep + 1 /\ processed' = processed + 1]_vars

\* training was interrupted between the increment that made globStep a
\* multiple of saveEvery and the end of the checkpoint; the final save has
\* saved that step, after an earlier checkpoint
C28_Witness ==
    /\ trainPc = "returned"
    /\ interrupted = "KeyboardInterrupt"
    /\ args.saveEvery = 2
    /\ globStep = firstStep + 3
    /\ globStep % 2 = 0
    /\ Len(saves) = 2
    /\ saves[1].at = "checkpoint"
    /\ saves[2] = [step |-> globStep, at |-> "final"]

----------------------------------------------------------------------------
(* The step-major traceback against a walk of each slot on its own
   (SpecBeam) *)

\* the walk of one slot alone: from cursor c at step i down to step 0, with
\* the tokens in the order they are appended
RECURSIVE SoloWalk(_, _, _)
SoloWalk(i, c, acc) ==
    IF i < 0 THEN acc
    ELSE SoloWalk(i - 1, path[i][c],
                  [tokens |-> Append(acc.tokens, symbol[i][c]),
                   logp   |-> acc.logp + probs[i][c]])

\* iteration n of the two loops (0 first) is step IterStep(n), slot
\* IterSlot(n)
IterStep(n) == NumSteps - 1 - (n \div BeamSize)

IterSlot(n) == n % BeamSize

\* paths, log_probs and curr before each iteration of the loops and after
\* the last one, given those before the iterations 0..n
RECURSIVE LoopStates(_, _)
LoopStates(n, acc) ==
    IF n = NumSteps * BeamSize THEN acc
    ELSE LoopStates(n + 1,
                    Append(acc, StepSlot(IterStep(n), IterSlot(n),
                                         lastTokenIndex, acc[n + 1])))

\* paths, log_probs and curr when the loops reach slot kk at step i
Before(i, kk) ==
    LoopStates(0, <<TraceInit>>)[(NumSteps - 1 - i) * BeamSize + kk + 1]

\* the loop state st with the cursor of every slot but k moved on by d slots
OthersMoved(st, k, d) ==
    [st EXCEPT !.curr = [j \in Slots |->
                            IF j = k THEN @[j] ELSE (@[j] + d) % BeamSize]]

\* C30: the loop that advances all slots step by step through the shared
\* array curr gives every slot the tokens and the log-probability of a walk
\* of that slot alone from its own termination step; the iteration of one
\* slot leaves the cursor, the path and the log-probability of every other
\* slot as they were and gives the same result wherever the cursors of the
\* other slots point, and the cursor of a slot is first used at the slot's
\* termination step, where it still holds the slot index.
C30_SharedCursorIsPerSlotWalk ==
    pc = "done" =>
        \A all \in {LoopStates(0, <<TraceInit>>)} :
        \A k \in Slots : \A s \in {TermStep(k)} :
            /\ \A w \in {SoloWalk(s, k, [tokens |-> <<>>, logp |-> 0])} :
                   /\ paths[k] = w.tokens
                   /\ log_probs[k] = w.logp
                   /\ candidates[k + 1] = Reverse(w.tokens)
            /\ startStep[k] = s
            /\ \A i \in 0..(NumSteps - 1) :
                   \A n \in {(NumSteps - 1 - i) * BeamSize + k} :
                   \A b \in {all[n + 1]} : \A a \in {all[n + 2]} :
                       /\ i = s => b.curr[k] = k
                       /\ i > s => a = b
                       /\ i <= s =>
                           \A j \in Slots \ {k} :
                              /\ a.curr[j] = b.curr[j]
                              /\ a.paths[j] = b.paths[j]
                              /\ a.log_probs[j] = b.log_probs[j]
                       /\ i <= s =>
                           \A d \in 1..(BeamSize - 1) :
                              \A a2 \in {StepSlot(i, k, lastTokenIndex,
                                                  OthersMoved(b, k, d))} :
                                  /\ a2.paths[k] = a.paths[k]
                                  /\ a2.log_probs[k] = a.log_probs[k]
                                  /\ a2.curr[k] = a.curr[k]

\* slot 1 terminates at step 1 and slot 0 at step 2; at step 1 the walk of
\* slot 0 has moved to cell 1, the cell the walk of slot 1 starts from
C30_Witness ==
    /\ pc = "done"
    /\ NumSteps = 3
    /\ TermStep(0) = 2 /\ TermStep(1) = 1
    /\ path[2][0] = 1 /\ path[1][1] = 0
    /\ Before(1, 0).curr = [kk \in Slots |-> 1]
    /\ paths[0] = <<symbol[2][0], symbol[1][1], symbol[0][0]>>
    /\ paths[1] = <<symbol[1][1], symbol[0][0]>>

====
